---------------------------- MODULE Spec2Model ----------------------------
(***************************************************************************)
(* Topology state reconciliation and layout engine of the network          *)
(* topology front end (TopologyComponent, the edit view, and               *)
(* ViewNetworkTopologyComponent, the read-only view).                      *)
(*                                                                         *)
(* Strings whose characters matter to the code (device addresses,          *)
(* interface names, connection identities) are sequences of character      *)
(* codes, so that trim, toUpperCase, sort and concatenation are computed   *)
(* as the code computes them.  Coordinates and speeds are integers.        *)
(***************************************************************************)
EXTENDS Integers, Sequences, FiniteSets, TLC

VARIABLES
    networkData,        \* this.networkData: [nodes, edges] (arrays of records)
    connectionMap,      \* this.connectionMap: connection id -> record
    savedPositions,     \* this.savedPositions: id -> position
    deviceStatusMap,    \* this.deviceStatusMap: id -> "on" | "off"
    deviceTypeMap,      \* this.deviceTypeMap: id -> type
    cy,                 \* the rendering-engine instance held by the container, or NoCy
    isUserDragging,     \* this.isUserDragging
    isLoadingData,      \* this.isLoadingData
    isSilentRefreshing, \* this.isSilentRefreshing
    loadFailed,         \* this.loadFailed
    forceFullUpdate,    \* this.forceFullUpdate
    inflight,           \* backend requests subscribed to and not yet answered
    component,          \* which component this is: "edit" (TopologyComponent) or "view"
    pendingInit,        \* ngAfterViewInit timers set and not yet run
    fnIn,               \* arguments of the function under study
    fnOut,              \* its result
    grabbed,            \* the node under the pointer while a drag gesture lasts, or << >>
    userMoved,          \* identities whose stored position was last written by a drag handler
    hist                \* history of the last operation (what it was given, what it computed)

vars == << networkData, connectionMap, savedPositions, deviceStatusMap,
           deviceTypeMap, cy, isUserDragging, isLoadingData, isSilentRefreshing,
           loadFailed, forceFullUpdate, inflight, component, pendingInit,
           fnIn, fnOut, grabbed, userMoved, hist >>

canonical == << networkData, connectionMap, savedPositions, deviceStatusMap,
                deviceTypeMap >>

flags == << isUserDragging, isLoadingData, isSilentRefreshing, loadFailed,
            forceFullUpdate >>

requests == << inflight, component, pendingInit >>

---------------------------------------------------------------------------
(* Bounds of the model                                                     *)

MaxIfLen == 2          \* longest interface name drawn for createConnectionId
MaxCyEdges == 1        \* most edges the rendering instance is let to accumulate

---------------------------------------------------------------------------
(* Generic helpers                                                         *)

NoCy == [present |-> FALSE]
NoResult == [done |-> FALSE]
NoHist == [op |-> "none"]
EmptyMap == << >>

Max_incoming(a, b) == a

Max_sum(a, b) == a + b

Max(a, b) == IF a >= b THEN a ELSE b
Abs(a) == IF a < 0 THEN 0 - a ELSE a

Has(m, k) == k \in DOMAIN m
Put(m, k, v) == [x \in (DOMAIN m) \cup {k} |-> IF x = k THEN v ELSE m[x]]

RECURSIVE SeqsUpTo(_, _)
SeqsUpTo(S, n) ==
    IF n = 0 THEN { << >> }
    ELSE LET shorter == SeqsUpTo(S, n - 1)
         IN  shorter \cup { Append(s, c) : s \in shorter, c \in S }

---------------------------------------------------------------------------
(* Strings as sequences of character codes                                 *)

SP == 32
ChColon == 58
ChBar == 124

IP1 == << 49, 48, 46, 48, 46, 48, 46, 49 >>   \* "10.0.0.1"
IP2 == << 49, 48, 46, 48, 46, 48, 46, 50 >>   \* "10.0.0.2"
On == << 111, 110 >>                  \* "on"
Off == << 111, 102, 102 >>            \* "off"
TSwitch == << 115, 119, 105, 116, 99, 104 >>     \* "switch"
TRouter == << 114, 111, 117, 116, 101, 114 >>     \* "router"
TFirewall == << 102, 105, 114, 101, 119, 97, 108, 108 >>   \* "firewall"
CoreBlock == << 99, 111, 114, 101, 45, 98, 108, 111, 99, 107 >>  \* "core-block"

RECURSIVE TrimStart(_)
TrimStart(s) ==
    IF s = << >> THEN s
    ELSE IF Head(s) = SP THEN TrimStart(Tail(s)) ELSE s

RECURSIVE TrimEnd(_)
TrimEnd(s) ==
    IF s = << >> THEN s
    ELSE IF s[Len(s)] = SP THEN TrimEnd(SubSeq(s, 1, Len(s) - 1)) ELSE s

Trim(s) == TrimEnd(TrimStart(s))

ToUpperCase_asWritten(s) == s

ToUpperCase(s) ==
    [i \in 1..Len(s) |-> IF s[i] \in 97..122 THEN s[i] - 32 ELSE s[i]]

ToLowerCase(s) ==
    [i \in 1..Len(s) |-> IF s[i] \in 65..90 THEN s[i] + 32 ELSE s[i]]

RECURSIVE StrLess(_, _)
StrLess(s, t) ==
    IF t = << >> THEN FALSE
    ELSE IF s = << >> THEN TRUE
    ELSE IF Head(s) # Head(t) THEN Head(s) < Head(t)
    ELSE StrLess(Tail(s), Tail(t))

SortPair_unsorted(x, y) == << x, y >>

SortPair(x, y) == IF StrLess(y, x) THEN << y, x >> ELSE << x, y >>

createConnectionId(deviceAIP, interfaceA, deviceBIP, interfaceB) ==
    LET normalizedInterfaceA == ToUpperCase(Trim(interfaceA))
        normalizedInterfaceB == ToUpperCase(Trim(interfaceB))
        normalizedDeviceA == Trim(deviceAIP)
        normalizedDeviceB == Trim(deviceBIP)
    IN  IF normalizedInterfaceA = << >> \/ normalizedInterfaceB = << >>
        THEN LET devicePair == SortPair(normalizedDeviceA, normalizedDeviceB)
             IN  devicePair[1] \o << ChBar >> \o devicePair[2]
        ELSE LET pairA == normalizedDeviceA \o << ChColon >> \o normalizedInterfaceA
                 pairB == normalizedDeviceB \o << ChColon >> \o normalizedInterfaceB
                 sortedPairs == SortPair(pairA, pairB)
             IN  sortedPairs[1] \o << ChBar >> \o sortedPairs[2]

---------------------------------------------------------------------------
(* Link records: speeds, utilization, severity                             *)

RECURSIVE GCD(_, _)
GCD(a, b) == IF b = 0 THEN a ELSE GCD(b, a % b)

\* The number n / d (d > 0) in lowest terms.
Rat(n, d) == LET g == GCD(n, d) IN [num |-> n \div g, den |-> d \div g]

RatGeq_strict(r, k) == r.num > k * r.den

RatGeq(r, k) == r.num >= k * r.den

\* capacity > 0 ? (inSpeed / capacity) * 100 : 0
speedPercentageOf(inSpeed, capacity) ==
    IF capacity > 0 THEN Rat(inSpeed * 100, capacity) ELSE Rat(0, 1)

\* `${x}G`
G(x) == << x, "G" >>

\* `${inSpeed}G / ${capacity}G`
SpeedLabel(inSpeed, capacity) == << inSpeed, "G / ", capacity, "G" >>

getSpeedColorInfo(speedPercentage, inSpeed, capacity) ==
    IF inSpeed = 0 \/ capacity = 0 THEN [color |-> "#ff0000", status |-> "down"]
    ELSE IF RatGeq(speedPercentage, 90) THEN [color |-> "#f44336", status |-> "critical"]
    ELSE IF RatGeq(speedPercentage, 70) THEN [color |-> "#ff9800", status |-> "warning"]
    ELSE IF RatGeq(speedPercentage, 50) THEN [color |-> "#2196f3", status |-> "normal"]
    ELSE [color |-> "#4caf50", status |-> "good"]

\* getSpeedColorInfo of the view component
viewGetSpeedColorInfo(speedPercentage, inSpeed, capacity) ==
    IF inSpeed = 0 \/ capacity = 0 THEN [color |-> "#ff0000", status |-> "down"]
    ELSE IF RatGeq(speedPercentage, 90) THEN [color |-> "#f44336", status |-> "critical"]
    ELSE IF RatGeq(speedPercentage, 70) THEN [color |-> "#ff9800", status |-> "warning"]
    ELSE IF RatGeq(speedPercentage, 50) THEN [color |-> "#2196f3", status |-> "normal"]
    ELSE [color |-> "#4caf50", status |-> "good"]

\* Index of the first rendered edge between the two devices, in either direction; 0 if none.
FirstEdgeBetween(edges, a, b) ==
    LET hits == { i \in 1..Len(edges) :
                    \/ edges[i].source = a /\ edges[i].target = b
                    \/ edges[i].source = b /\ edges[i].target = a }
    IN  IF hits = { } THEN 0 ELSE CHOOSE i \in hits : \A j \in hits : i <= j

\* The rendering engine after updateExistingEdgeInCytoscape: the data of the first
\* matching edge is rewritten, the line colour of every matching edge is set.
updateExistingEdgeInCytoscape(cyv, deviceAIP, deviceBIP, connectionData) ==
    IF ~cyv.present THEN cyv
    ELSE LET first == FirstEdgeBetween(cyv.edges, deviceAIP, deviceBIP)
             match(e) == \/ e.source = deviceAIP /\ e.target = deviceBIP
                         \/ e.source = deviceBIP /\ e.target = deviceAIP
             upd(i) ==
                 LET e == cyv.edges[i]
                     d == IF i = first
                          THEN [e EXCEPT !.speed = connectionData.speed,
                                         !.speedPercentage = connectionData.speedPercentage,
                                         !.speedColor = connectionData.speedColor,
                                         !.speedStatus = connectionData.speedStatus,
                                         !.inSpeed = G(connectionData.inSpeed),
                                         !.outSpeed = G(connectionData.outSpeed),
                                         !.capacity = G(connectionData.capacity)]
                          ELSE e
                 IN  IF match(e) THEN [d EXCEPT !.lineColor = connectionData.speedColor]
                     ELSE d
         IN  IF first = 0 THEN cyv
             ELSE [cyv EXCEPT !.edges = [i \in 1..Len(cyv.edges) |-> upd(i)]]

\* st: the fields of the component a handler works on, [conn, cy, ...].
handleDuplicateConnection(st, connectionId, inSpeed, outSpeed, capacity, deviceAIP, deviceBIP) ==
    LET existingConnection == st.conn[connectionId]
        mergedInSpeed == Max(inSpeed, existingConnection.inSpeed)
        mergedOutSpeed == Max(outSpeed, existingConnection.outSpeed)
        mergedCapacity == Max(capacity, existingConnection.capacity)
        speedPercentage == speedPercentageOf(mergedInSpeed, mergedCapacity)
        speedInfo == getSpeedColorInfo(speedPercentage, mergedInSpeed, mergedCapacity)
        merged == [existingConnection EXCEPT
                     !.inSpeed = mergedInSpeed,
                     !.outSpeed = mergedOutSpeed,
                     !.capacity = mergedCapacity,
                     !.speedPercentage = speedPercentage,
                     !.speedColor = speedInfo.color,
                     !.speedStatus = speedInfo.status,
                     !.speed = SpeedLabel(mergedInSpeed, mergedCapacity)]
    IN  [st EXCEPT !.conn = Put(st.conn, connectionId, merged),
                   !.cy = updateExistingEdgeInCytoscape(st.cy, deviceAIP, deviceBIP, merged)]

createNewEdge(st, deviceAIP, deviceBIP, inSpeed, outSpeed, capacity, interface_a, interface_b, description) ==
    LET connectionId == createConnectionId(deviceAIP, interface_a, deviceBIP, interface_b)
        speedPercentage == speedPercentageOf(inSpeed, capacity)
        speedInfo == getSpeedColorInfo(speedPercentage, inSpeed, capacity)
        connectionData ==
            [deviceAIP |-> deviceAIP, deviceBIP |-> deviceBIP,
             inSpeed |-> inSpeed, outSpeed |-> outSpeed, capacity |-> capacity,
             interface_a |-> interface_a, interface_b |-> interface_b,
             description |-> description,
             speedPercentage |-> speedPercentage,
             speedColor |-> speedInfo.color, speedStatus |-> speedInfo.status,
             speed |-> SpeedLabel(inSpeed, capacity)]
        edge ==
            [source |-> deviceAIP, target |-> deviceBIP,
             speed |-> connectionData.speed, status |-> description, type |-> "primary",
             metadata |-> [interface_a |-> interface_a, interface_b |-> interface_b,
                           description |-> description,
                           inSpeed |-> G(inSpeed), outSpeed |-> G(outSpeed),
                           capacity |-> G(capacity),
                           speedPercentage |-> speedPercentage,
                           speedColor |-> speedInfo.color,
                           speedStatus |-> speedInfo.status]]
    IN  [st EXCEPT !.conn = Put(st.conn, connectionId, connectionData),
                   !.newEdges = Append(st.newEdges, edge),
                   !.edges = Append(st.edges, edge)]

\* The edge data handed to the rendering engine for a link of the canonical list.
EdgeData(edge) ==
    [source |-> edge.source, target |-> edge.target,
     speed |-> edge.speed, status |-> edge.status, type |-> edge.type,
     interface_a |-> edge.metadata.interface_a,
     interface_b |-> edge.metadata.interface_b,
     description |-> edge.metadata.description,
     inSpeed |-> edge.metadata.inSpeed, outSpeed |-> edge.metadata.outSpeed,
     capacity |-> edge.metadata.capacity,
     speedPercentage |-> edge.metadata.speedPercentage,
     speedColor |-> edge.metadata.speedColor,
     speedStatus |-> edge.metadata.speedStatus,
     lineColor |-> "stylesheet"]

---------------------------------------------------------------------------
(* Positions and the layout engine                                         *)

Pos(x, y) == [x |-> x, y |-> y]

\* The concatenation of the sequences of a sequence: what a loop that pushes zero
\* or more elements per iteration leaves in its array.
RECURSIVE Flatten(_)
Flatten(ss) == IF ss = << >> THEN << >> ELSE Head(ss) \o Flatten(Tail(ss))

\* isValidPosition(position) for a position that is present: not exactly (0,0).
\* (Coordinates of the model are integers, so the NaN/infinite tests never fail.)
isValidPosition(position) == ~(position.x = 0 /\ position.y = 0)

\* getSavedPosition(nodeId) is non-null
hasSavedPosition(saved, nodeId) ==
    Has(saved, nodeId) /\ ~(saved[nodeId].x = 0 /\ saved[nodeId].y = 0)

saveNodePosition(saved, nodeId, position) == Put(saved, nodeId, position)

MaxAttempts == 20
MinDistance == 200
OriginDistance == 50
Padding == 150
GridSize == 300
MaxDevicesPerRow == 4
DeviceSpacing == 80
RandDen == 4           \* Math.random() is drawn from { k / RandDen : k \in 0..RandDen-1 }

Dist2(p, q) == (p.x - q.x) * (p.x - q.x) + (p.y - q.y) * (p.y - q.y)

CeilDiv(a, b) == (a + b - 1) \div b

\* Children of a compound node that are not compound nodes themselves.
IsParent(cyv, id) == \E n \in DOMAIN cyv.nodes : cyv.nodes[n].parent = id
Children(cyv, id) == { n \in DOMAIN cyv.nodes : cyv.nodes[n].parent = id }

\* The candidate of one random attempt, d = [rx, ry] being the two draws.
RandomCandidate(d, vp, vw, vh) ==
    Pos(vp.x1 + Padding + (d.rx * (vw - 2 * Padding)) \div RandDen,
        vp.y1 + Padding + (d.ry * (vh - 2 * Padding)) \div RandDen)

CandidateRejected(newPosition, existingPositions) ==
    \/ Dist2(newPosition, Pos(0, 0)) < OriginDistance * OriginDistance
    \/ \E e \in existingPositions : Dist2(newPosition, e) < MinDistance * MinDistance

\* The do-while loop of random attempts: [pos, attempts] when it is left.
RECURSIVE RandomAttempts(_, _, _, _, _, _)
AfterAttempt(newPosition, draws, attempts, vp, vw, vh, existingPositions) ==
    IF ~CandidateRejected(newPosition, existingPositions)
    THEN [pos |-> newPosition, attempts |-> attempts]
    ELSE IF attempts + 1 < MaxAttempts
         THEN RandomAttempts(draws, attempts + 1, vp, vw, vh, existingPositions)
         ELSE [pos |-> newPosition, attempts |-> attempts + 1]

RandomAttempts(draws, attempts, vp, vw, vh, existingPositions) ==
    AfterAttempt(RandomCandidate(draws[attempts + 1], vp, vw, vh),
                 draws, attempts, vp, vw, vh, existingPositions)

GridCell(vp, col) ==
    Pos(vp.x1 + Padding + col * GridSize + GridSize \div 2,
        vp.y1 + Padding + 0 * GridSize + GridSize \div 2)

FirstCellOr(hits, newPosition, vp) ==
    IF hits = { } THEN newPosition
    ELSE GridCell(vp, CHOOSE c \in hits : \A c2 \in hits : c <= c2)

\* The grid scan.  newPosition already holds the last random candidate, so
\* "if (newPosition) break" leaves the row loop after row 0 whatever was found.
GridScan(newPosition, vp, vw, vh, existingPositions) ==
    FirstCellOr({ col \in 0..(CeilDiv(vw, GridSize) - 1) :
                    \A e \in existingPositions :
                        ~(Dist2(GridCell(vp, col), e) < MinDistance * MinDistance) },
                newPosition, vp)

\* The slot in the parent's grid for a device that has n siblings.
BlockSlot(parentPos, n) ==
    \* (col - 3/2) * 80 and (row - (totalRows - 1)/2) * 80
    Pos(parentPos.x + (n % MaxDevicesPerRow) * DeviceSpacing
            - ((MaxDevicesPerRow - 1) * DeviceSpacing) \div 2,
        parentPos.y + (n \div MaxDevicesPerRow) * DeviceSpacing
            - ((CeilDiv(n + 1, MaxDevicesPerRow) - 1) * DeviceSpacing) \div 2)

AfterRandomAttempts(r, vp, vw, vh, existingPositions) ==
    IF r.attempts >= MaxAttempts
    THEN GridScan(r.pos, vp, vw, vh, existingPositions)
    ELSE r.pos

ViewportPosition(vp, vw, vh, existingPositions, rnd) ==
    AfterRandomAttempts(RandomAttempts(rnd.draws, 0, vp, vw, vh, existingPositions),
                        vp, vw, vh, existingPositions)

\* What generateSafePosition computes when no valid saved position exists.
\* rnd: the values Math.random() returns to this call, [draws: 20 pairs].
computedPosition(cyv, nodeId, preferredParent, rnd) ==
    IF preferredParent # << >> /\ Has(cyv.nodes, preferredParent)
    THEN BlockSlot(cyv.nodes[preferredParent].position,
                   Cardinality({ n \in Children(cyv, preferredParent) :
                                   n # nodeId /\ ~IsParent(cyv, n) }))
    ELSE ViewportPosition(cyv.viewport,
                          Max(cyv.viewport.x2 - cyv.viewport.x1, 800),
                          Max(cyv.viewport.y2 - cyv.viewport.y1, 600),
                          { cyv.nodes[n].position : n \in (DOMAIN cyv.nodes) \ {nodeId} },
                          rnd)

generateSafePosition_fresh(saved, cyv, nodeId, preferredParent, rnd) ==
    computedPosition(cyv, nodeId, preferredParent, rnd)

generateSafePosition(saved, cyv, nodeId, preferredParent, rnd) ==
    IF hasSavedPosition(saved, nodeId) /\ isValidPosition(saved[nodeId])
    THEN saved[nodeId]
    ELSE computedPosition(cyv, nodeId, preferredParent, rnd)

---------------------------------------------------------------------------
(* The component's tables as one record, threaded through a handler:       *)
(*   nd (networkData), conn, saved, status, type, cy                       *)

ChDash == 45

NodeIds(nodes) == { nodes[i].id : i \in 1..Len(nodes) }

\* Object.entries / Map.forEach of a table, as an array in a fixed key order.
Entries(order, m) ==
    Flatten([i \in 1..Len(order) |->
               IF order[i] \in DOMAIN m THEN << order[i] >> ELSE << >>])

EmptyChanges ==
    [newNodes |-> << >>, newEdges |-> << >>, positionUpdates |-> << >>,
     statusUpdates |-> << >>, typeUpdates |-> << >>]

compareNodes(c, backendNodes, changes) ==
    [changes EXCEPT
       !.newNodes = @ \o
           Flatten([i \in 1..Len(backendNodes) |->
                      IF backendNodes[i].id \notin NodeIds(c.nd.nodes)
                      THEN << backendNodes[i] >> ELSE << >>]),
       !.statusUpdates = @ \o
           Flatten([i \in 1..Len(backendNodes) |->
                      IF /\ backendNodes[i].id \in NodeIds(c.nd.nodes)
                         /\ backendNodes[i].status # << >>
                         /\ ~( /\ Has(c.status, backendNodes[i].id)
                               /\ c.status[backendNodes[i].id] = backendNodes[i].status )
                      THEN << [deviceId |-> backendNodes[i].id,
                               status |-> backendNodes[i].status] >>
                      ELSE << >>]),
       !.typeUpdates = @ \o
           Flatten([i \in 1..Len(backendNodes) |->
                      IF /\ backendNodes[i].id \in NodeIds(c.nd.nodes)
                         /\ backendNodes[i].type # << >>
                         /\ ~( /\ Has(c.type, backendNodes[i].id)
                               /\ c.type[backendNodes[i].id] = backendNodes[i].type )
                      THEN << [deviceId |-> backendNodes[i].id,
                               type |-> backendNodes[i].type] >>
                      ELSE << >>])]

\* `${e.source}-${e.target}`
EdgeKey(e) == e.source \o << ChDash >> \o e.target

compareEdges(c, backendEdges, changes) ==
    [changes EXCEPT !.newEdges = @ \o
        Flatten([i \in 1..Len(backendEdges) |->
                   IF EdgeKey(backendEdges[i]) \notin
                          { EdgeKey(c.nd.edges[j]) : j \in 1..Len(c.nd.edges) }
                   THEN << backendEdges[i] >> ELSE << >>])]

DifferingEntries_every(keys, current, backend) == keys

\* The entries of a backend table that differ from the component's table.
DifferingEntries(keys, current, backend) ==
    Flatten([i \in 1..Len(keys) |->
               IF ~(Has(current, keys[i]) /\ current[keys[i]] = backend[keys[i]])
               THEN << keys[i] >> ELSE << >>])

PositionUpdatesFor(keys, backendPositions) ==
    [i \in 1..Len(keys) |-> [nodeId |-> keys[i], position |-> backendPositions[keys[i]]]]

\* A stored position differs when its x or its y is not the backend's (strictly).
comparePositions(order, c, backendPositions, changes) ==
    [changes EXCEPT !.positionUpdates = @ \o
        PositionUpdatesFor(DifferingEntries(Entries(order, backendPositions),
                                            c.saved, backendPositions),
                           backendPositions)]

StatusUpdatesFor(keys, backendStatuses) ==
    [i \in 1..Len(keys) |-> [deviceId |-> keys[i], status |-> backendStatuses[keys[i]]]]

compareDeviceStatuses(order, c, backendStatuses, changes) ==
    [changes EXCEPT !.statusUpdates = @ \o
        StatusUpdatesFor(DifferingEntries(Entries(order, backendStatuses),
                                          c.status, backendStatuses),
                         backendStatuses)]

TypeUpdatesFor(keys, backendTypes) ==
    [i \in 1..Len(keys) |-> [deviceId |-> keys[i], type |-> backendTypes[keys[i]]]]

compareDeviceTypes(order, c, backendTypes, changes) ==
    [changes EXCEPT !.typeUpdates = @ \o
        TypeUpdatesFor(DifferingEntries(Entries(order, backendTypes),
                                        c.type, backendTypes),
                       backendTypes)]

\* The change-set compareAndUpdateNetworkData computes for a snapshot.
ChangeSet(order, c, backendData) ==
    compareDeviceTypes(order, c, backendData.deviceTypes,
      compareDeviceStatuses(order, c, backendData.deviceStatus,
        comparePositions(order, c, backendData.positions,
          compareEdges(c, backendData.networkData.edges,
            compareNodes(c, backendData.networkData.nodes, EmptyChanges)))))

---------------------------------------------------------------------------
(* Adding elements to the rendering engine                                 *)

CyNode(position, parent) == [position |-> position, parent |-> parent]

\* cy.add of a node: an element whose id is already present is refused.
CyAddNode(cyv, id, parent) ==
    IF Has(cyv.nodes, id) THEN cyv
    ELSE [cyv EXCEPT !.nodes = Put(cyv.nodes, id, CyNode(Pos(0, 0), parent))]

\* node.position(safePosition); this.saveNodePosition(nodeId, safePosition)
PlaceAndSave(c, nodeId, safePosition) ==
    [c EXCEPT !.cy.nodes[nodeId].position = safePosition,
              !.saved = saveNodePosition(c.saved, nodeId, safePosition)]

RECURSIVE positionNewNodesManually(_, _, _)
positionNewNodesManually(c, newNodes, rnd) ==
    IF newNodes = << >> THEN c
    ELSE positionNewNodesManually(
             IF ~Has(c.cy.nodes, Head(newNodes).id) THEN c
             ELSE PlaceAndSave(c, Head(newNodes).id,
                               generateSafePosition(c.saved, c.cy, Head(newNodes).id,
                                                    Head(newNodes).parent, rnd)),
             Tail(newNodes), rnd)

\* One iteration of the loop over the new devices.
AddNewNode(c, nodeId, parentId, node) ==
    IF nodeId = << >> THEN c
    ELSE [c EXCEPT
            !.cy = CyAddNode(IF parentId # << >> THEN CyAddNode(c.cy, parentId, << >>)
                             ELSE c.cy,
                             nodeId, node.parent),
            !.status = IF Has(c.status, nodeId) THEN c.status
                       ELSE Put(c.status, nodeId, Off)]

RECURSIVE AddNewNodes(_, _)
AddNewNodes(c, newNodes) ==
    IF newNodes = << >> THEN c
    ELSE AddNewNodes(AddNewNode(c, Trim(Head(newNodes).id), Trim(Head(newNodes).parent),
                                Head(newNodes)),
                     Tail(newNodes))

\* One iteration of the loop over the new links.
AddNewEdge(c, sourceId, targetId, edge) ==
    IF sourceId = << >> \/ targetId = << >> THEN c
    ELSE IF ~Has(c.cy.nodes, sourceId) \/ ~Has(c.cy.nodes, targetId) THEN c
    ELSE [c EXCEPT !.cy.edges =
            Append(c.cy.edges,
                   [EdgeData(edge) EXCEPT !.source = sourceId, !.target = targetId])]

RECURSIVE AddNewEdges(_, _)
AddNewEdges(c, newEdges) ==
    IF newEdges = << >> THEN c
    ELSE AddNewEdges(AddNewEdge(c, Trim(Head(newEdges).source),
                                Trim(Head(newEdges).target), Head(newEdges)),
                     Tail(newEdges))

\* The nodes that were there get back the positions they were locked at.
RestoreLocked(c, lockedPositions) ==
    [c EXCEPT !.cy.nodes =
        [n \in DOMAIN c.cy.nodes |->
            IF n \in DOMAIN lockedPositions
            THEN [c.cy.nodes[n] EXCEPT !.position = lockedPositions[n]]
            ELSE c.cy.nodes[n]]]

\* addIncrementalElements with a rendering instance present.
addIncrementalElements(c, newNodes, newEdges, rnd) ==
    RestoreLocked(
        positionNewNodesManually(AddNewEdges(AddNewNodes(c, newNodes), newEdges),
                                 newNodes, rnd),
        [n \in DOMAIN c.cy.nodes |-> c.cy.nodes[n].position])

RECURSIVE FixPositions(_, _, _)
FixPositions(c, nodesToFix, rnd) ==
    IF nodesToFix = << >> THEN c
    ELSE FixPositions(
             PlaceAndSave(c, Head(nodesToFix),
                          generateSafePosition(c.saved, c.cy, Head(nodesToFix),
                                               c.cy.nodes[Head(nodesToFix)].parent, rnd)),
             Tail(nodesToFix), rnd)

fixInvalidPositionsAfterUpdate(order, c, rnd) ==
    FixPositions(c,
                 Flatten([i \in 1..Len(order) |->
                            IF /\ Has(c.cy.nodes, order[i])
                               /\ ~IsParent(c.cy, order[i])
                               /\ ~isValidPosition(c.cy.nodes[order[i]].position)
                            THEN << order[i] >> ELSE << >>]),
                 rnd)

---------------------------------------------------------------------------
(* applyIncrementalChanges                                                 *)

Tolerance == 5

\* The positions kept as user-modified: no backend value, or more than 5 px away from it.
userModifiedPositions_none(saved, backendPositions) == { }
userModifiedPositions_all(saved, backendPositions) == DOMAIN saved

userModifiedPositions(saved, backendPositions) ==
    { nodeId \in DOMAIN saved :
        \/ ~Has(backendPositions, nodeId)
        \/ Abs(saved[nodeId].x - backendPositions[nodeId].x) > Tolerance
        \/ Abs(saved[nodeId].y - backendPositions[nodeId].y) > Tolerance }

applyPositionUpdate(c, update, rnd) ==
    IF ~Has(c.cy.nodes, update.nodeId) THEN c
    ELSE IF isValidPosition(update.position)
    THEN [c EXCEPT !.cy.nodes[update.nodeId].position = update.position]
    ELSE PlaceAndSave(c, update.nodeId,
                      generateSafePosition(c.saved, c.cy, update.nodeId, << >>, rnd))

RECURSIVE applyPositionUpdates(_, _, _)
applyPositionUpdates(c, positionUpdates, rnd) ==
    IF positionUpdates = << >> THEN c
    ELSE applyPositionUpdates(applyPositionUpdate(c, Head(positionUpdates), rnd),
                              Tail(positionUpdates), rnd)

RECURSIVE applyStatusUpdates(_, _)
applyStatusUpdates(c, statusUpdates) ==
    IF statusUpdates = << >> THEN c
    ELSE applyStatusUpdates(
             IF ~Has(c.cy.nodes, Head(statusUpdates).deviceId) THEN c
             ELSE [c EXCEPT !.status = Put(c.status, Head(statusUpdates).deviceId,
                                           Head(statusUpdates).status)],
             Tail(statusUpdates))

\* What the loop over changes.statusUpdates pushes on pendingStatusAnimations through
\* animateStatusChange: one event for each update of a rendered device whose status in
\* the map, read just before it is set, is another one.  (The timestamp is left out.)
RECURSIVE statusAnimationsOf(_, _)
statusAnimationsOf(c, statusUpdates) ==
    IF statusUpdates = << >> THEN << >>
    ELSE LET update == Head(statusUpdates)
             rendered == Has(c.cy.nodes, update.deviceId)
             oldStatus == IF Has(c.status, update.deviceId)
                          THEN c.status[update.deviceId] ELSE << >>
         IN  (IF rendered /\ oldStatus # << >> /\ oldStatus # update.status
              THEN << [nodeId |-> update.deviceId, fromStatus |-> oldStatus,
                       toStatus |-> update.status] >>
              ELSE << >>)
             \o statusAnimationsOf(
                    IF rendered
                    THEN [c EXCEPT !.status = Put(c.status, update.deviceId, update.status)]
                    ELSE c,
                    Tail(statusUpdates))

RECURSIVE applyTypeUpdates(_, _)
applyTypeUpdates(c, typeUpdates) ==
    IF typeUpdates = << >> THEN c
    ELSE applyTypeUpdates(
             IF ~Has(c.cy.nodes, Head(typeUpdates).deviceId) THEN c
             ELSE [c EXCEPT !.type = Put(c.type, Head(typeUpdates).deviceId,
                                         Head(typeUpdates).type)],
             Tail(typeUpdates))

\* The branch taken while a drag is in progress: everything but positions.
applyDuringDrag(c, backendData) ==
    [c EXCEPT !.nd = backendData.networkData,
              !.status = backendData.deviceStatus,
              !.type = backendData.deviceTypes,
              !.conn = backendData.connectionMap]

\* The store after the backend's positions are loaded and the kept ones restored.
RestoreKept(saved, backendPositions, kept) ==
    [nodeId \in (DOMAIN backendPositions) \cup kept |->
        IF nodeId \in kept THEN saved[nodeId] ELSE backendPositions[nodeId]]

\* The tables reloaded from the snapshot, user-modified positions kept.
ReloadTables(c, backendData) ==
    [c EXCEPT
       !.nd = backendData.networkData,
       !.saved = RestoreKept(c.saved, backendData.positions,
                             userModifiedPositions(c.saved, backendData.positions)),
       !.status = backendData.deviceStatus,
       !.type = backendData.deviceTypes,
       !.conn = backendData.connectionMap]

AddIfAny(c, changes, rnd) ==
    IF Len(changes.newNodes) > 0 \/ Len(changes.newEdges) > 0
    THEN addIncrementalElements(c, changes.newNodes, changes.newEdges, rnd)
    ELSE c

applyWithPositions(order, c, changes, backendData, rnd) ==
    fixInvalidPositionsAfterUpdate(order,
        AddIfAny(
            applyTypeUpdates(
                applyStatusUpdates(
                    applyPositionUpdates(ReloadTables(c, backendData),
                                         changes.positionUpdates, rnd),
                    changes.statusUpdates),
                changes.typeUpdates),
            changes, rnd),
        rnd)

applyIncrementalChanges_ignoringDrag(order, c, changes, backendData, dragging, rnd) ==
    IF ~c.cy.present THEN c
    ELSE applyWithPositions(order, c, changes, backendData, rnd)

applyIncrementalChanges(order, c, changes, backendData, dragging, rnd) ==
    IF ~c.cy.present THEN c
    ELSE IF dragging THEN applyDuringDrag(c, backendData)
    ELSE applyWithPositions(order, c, changes, backendData, rnd)

Reconciled(order, c, changes, backendData, dragging, rnd) ==
    [tables |-> applyIncrementalChanges(order, c, changes, backendData, dragging, rnd),
     changes |-> changes, reload |-> FALSE]

\* compareAndUpdateNetworkData: the tables afterwards, the change-set computed, and
\* whether loadNetworkData() was called instead (no rendering instance).
compareAndUpdateNetworkData(order, c, backendData, dragging, rnd) ==
    IF ~c.cy.present
    THEN [tables |-> c, changes |-> EmptyChanges, reload |-> TRUE]
    ELSE Reconciled(order, c, ChangeSet(order, c, backendData), backendData,
                    dragging, rnd)

\* The component's tables as a record, and back.
Tables ==
    [nd |-> networkData, conn |-> connectionMap, saved |-> savedPositions,
     status |-> deviceStatusMap, type |-> deviceTypeMap, cy |-> cy]

SetTables(c) ==
    /\ networkData' = c.nd
    /\ connectionMap' = c.conn
    /\ savedPositions' = c.saved
    /\ deviceStatusMap' = c.status
    /\ deviceTypeMap' = c.type
    /\ cy' = c.cy

---------------------------------------------------------------------------
(* State left alone by the specifications of single functions              *)

Idle ==
    /\ networkData = [blocks |-> << >>, nodes |-> << >>, edges |-> << >>]
    /\ connectionMap = EmptyMap
    /\ savedPositions = EmptyMap
    /\ deviceStatusMap = EmptyMap
    /\ deviceTypeMap = EmptyMap
    /\ cy = NoCy
    /\ isUserDragging = FALSE
    /\ isLoadingData = FALSE
    /\ isSilentRefreshing = FALSE
    /\ loadFailed = FALSE
    /\ forceFullUpdate = FALSE
    /\ inflight = { }
    /\ component = "edit"
    /\ pendingInit = 0
    /\ grabbed = << >>
    /\ userMoved = { }
    /\ hist = NoHist

---------------------------------------------------------------------------
(* createConnectionId on its own                                           *)

IdDeviceStrings == { IP1, IP2, << SP >> \o IP1, << >> }
IdInterfaceChars == { SP, 97, 65, 98 }        \* " ", "a", "A", "b"
IdInterfaceStrings == SeqsUpTo(IdInterfaceChars, MaxIfLen)

InitConnId ==
    /\ Idle
    /\ fnIn \in [a : IdDeviceStrings, ia : IdInterfaceStrings,
                 b : IdDeviceStrings, ib : IdInterfaceStrings]
    /\ fnOut = NoResult

CallCreateConnectionId ==
    /\ fnOut = NoResult
    /\ fnOut' = [done |-> TRUE,
                 ab |-> createConnectionId(fnIn.a, fnIn.ia, fnIn.b, fnIn.ib),
                 ba |-> createConnectionId(fnIn.b, fnIn.ib, fnIn.a, fnIn.ia)]
    /\ UNCHANGED << canonical, cy, flags, requests, fnIn, grabbed, userMoved, hist >>

NextConnId == CallCreateConnectionId

SpecConnId == InitConnId /\ [][NextConnId]_vars

(* C8: the canonical link identity is commutative: createConnectionId(A, iA, B, iB)
   equals createConnectionId(B, iB, A, iA) for all devices and interfaces, blank
   interfaces and interfaces differing only in case or surrounding spaces included. *)
C8_CanonicalIdCommutative ==
    fnOut.done => fnOut.ab = fnOut.ba

C8_Witness ==
    /\ fnOut.done
    /\ fnIn.a = IP2 /\ fnIn.b = IP1
    /\ fnIn.ia = << 97, SP >> /\ fnIn.ib = << 65 >>
    /\ fnOut.ab = IP1 \o << ChColon, 65, ChBar >> \o IP2 \o << ChColon, 65 >>

---------------------------------------------------------------------------
(* Reconciliation of backend snapshots, with the user dragging nodes       *)

\* A table given by its entries << key, value >>.
MapOf(pairs) == [k \in { p[1] : p \in pairs } |-> (CHOOSE p \in pairs : p[1] = k)[2]]

\* The order in which Object.entries, Map.forEach and cy.nodes() list identities.
IdOrder == << CoreBlock, IP1, IP2 >>

Eth0 == << 101, 116, 104, 48 >>       \* "eth0"
Eth1 == << 101, 116, 104, 49 >>       \* "eth1"

P0 == Pos(0, 0)
PA == Pos(120, 45)
PNear == Pos(123, 47)       \* within the tolerance of PA
PFar == Pos(400, 300)
PB == Pos(600, 100)

Viewport == [x1 |-> 0, y1 |-> 0, x2 |-> 800, y2 |-> 600]

\* What Math.random() returns during one handler: the same pair at every draw.
RndChoices ==
    { [draws |-> [i \in 1..MaxAttempts |-> [rx |-> k, ry |-> k]]] : k \in {0, 2} }

Node1(status, type) ==
    [id |-> IP1, label |-> IP1, type |-> type, parent |-> CoreBlock, status |-> status]
Node2 ==
    [id |-> IP2, label |-> IP2, type |-> TRouter, parent |-> << >>, status |-> On]

\* A link and its registry record as an import of the row builds them.
LinkOf(a, ia, b, ib, inSpeed, outSpeed, capacity) ==
    createNewEdge([conn |-> EmptyMap, newEdges |-> << >>, edges |-> << >>],
                  a, b, inSpeed, outSpeed, capacity, ia, ib, << >>)

Link12 == LinkOf(IP1, Eth0, IP2, Eth1, 5, 5, 10)
Link21 == LinkOf(IP2, Eth1, IP1, Eth0, 5, 5, 10)

Snapshot(nodes, link, positions, deviceStatus, deviceTypes) ==
    [networkData |-> [blocks |-> << >>, nodes |-> nodes, edges |-> link.edges],
     positions |-> positions, deviceStatus |-> deviceStatus,
     deviceTypes |-> deviceTypes, connectionMap |-> link.conn]

NoLink == [conn |-> EmptyMap, newEdges |-> << >>, edges |-> << >>]

BothOn == MapOf({ << IP1, On >>, << IP2, On >> })
BothTyped == MapOf({ << IP1, TSwitch >>, << IP2, TRouter >> })

\* Snapshots that differ in the positions they report.
PositionSnapshots ==
    { Snapshot(<< Node1(On, TSwitch), Node2 >>, Link12,
               MapOf(p1 \cup p2 \cup pc), BothOn, BothTyped) :
        p1 \in { { }, { << IP1, P0 >> }, { << IP1, PA >> }, { << IP1, PNear >> },
                 { << IP1, PFar >> } },
        p2 \in { { << IP2, PB >> } },
        pc \in { { } } }
    \cup
    { Snapshot(<< Node1(On, TSwitch), Node2 >>, Link12,
               MapOf({ << CoreBlock, PFar >>, << IP1, PA >> }), BothOn, BothTyped) }

\* Snapshots that differ in the devices and links they list.
DeviceSnapshots ==
    { Snapshot(nodes, NoLink, MapOf({ << IP1, PA >> }),
               MapOf({ << nodes[i].id, On >> : i \in 1..Len(nodes) }),
               MapOf({ << nodes[i].id, nodes[i].type >> : i \in 1..Len(nodes) })) :
        nodes \in { << >>, << Node1(On, TSwitch) >>, << Node2 >> } }
    \cup
    { Snapshot(<< Node1(On, TSwitch), Node2 >>, Link21,
               MapOf({ << IP1, PA >>, << IP2, PB >> }), BothOn, BothTyped) }

\* Snapshots whose per-device status or type and whose maps may disagree.
StatusSnapshots ==
    { Snapshot(<< Node1(st, TSwitch), Node2 >>, Link12,
               MapOf({ << IP1, PA >>, << IP2, PB >> }),
               MapOf(m \cup { << IP2, On >> }), BothTyped) :
        st \in { << >>, On, Off },
        m \in { { << IP1, Off >> } } }

TypeSnapshots ==
    { Snapshot(<< Node1(On, ty), Node2 >>, Link12,
               MapOf({ << IP1, PA >>, << IP2, PB >> }),
               BothOn, MapOf(m \cup { << IP2, TRouter >> })) :
        ty \in { TSwitch, TFirewall },
        m \in { { }, { << IP1, TFirewall >> } } }

Snapshots == PositionSnapshots \cup DeviceSnapshots \cup StatusSnapshots \cup TypeSnapshots

\* The snapshots answered while the user drags nodes about.
DragSnapshots ==
    { b \in PositionSnapshots : Has(b.positions, IP1) /\ ~Has(b.positions, CoreBlock) }
    \cup { b \in DeviceSnapshots : Len(b.networkData.nodes) = 1 }

\* The devices the user takes hold of.
Draggable == { IP1 }

DragTargets == { P0, PA }

\* The view has been initialised with nothing to show: an empty rendering instance.
InitReconcile ==
    /\ networkData = [blocks |-> << >>, nodes |-> << >>, edges |-> << >>]
    /\ connectionMap = EmptyMap
    /\ savedPositions = EmptyMap
    /\ deviceStatusMap = EmptyMap
    /\ deviceTypeMap = EmptyMap
    /\ cy = [present |-> TRUE, nodes |-> EmptyMap, edges |-> << >>, viewport |-> Viewport]
    /\ isUserDragging = FALSE
    /\ isLoadingData = FALSE
    /\ isSilentRefreshing = FALSE
    /\ loadFailed = FALSE
    /\ forceFullUpdate = FALSE
    /\ inflight = { }
    /\ component = "edit"
    /\ pendingInit = 0
    /\ fnIn = NoResult
    /\ fnOut = NoResult
    /\ grabbed = << >>
    /\ userMoved = { }
    /\ hist = NoHist

\* The stored position of the identity is further than the tolerance from the backend's.
BeyondTolerance(id, backendPositions) ==
    /\ Has(backendPositions, id)
    /\ Has(savedPositions, id)
    /\ \/ Abs(savedPositions[id].x - backendPositions[id].x) > Tolerance
       \/ Abs(savedPositions[id].y - backendPositions[id].y) > Tolerance

\* compareAndUpdateNetworkData(backendData), the handler of a successful answer.
CompareAndUpdateNetworkData(backendData, rnd) ==
    LET r == compareAndUpdateNetworkData(IdOrder, Tables, backendData, isUserDragging, rnd)
    IN  /\ ~r.reload
        /\ Len(r.tables.cy.edges) <= MaxCyEdges
        /\ SetTables(r.tables)
        /\ userMoved' = { n \in userMoved :
                            Has(r.tables.saved, n) /\ r.tables.saved[n] = savedPositions[n] }
        /\ hist' = [op |-> "reconcile", snapshot |-> backendData,
                    changes |-> r.changes, dragging |-> isUserDragging,
                    \* the events pushed on pendingStatusAnimations by the step
                    animations |-> IF isUserDragging THEN << >>
                                   ELSE statusAnimationsOf(ReloadTables(Tables, backendData),
                                                           r.changes.statusUpdates),
                    \* the same snapshot as the step before, no drag at either
                    again |-> /\ hist.op = "reconcile"
                              /\ hist.snapshot = backendData
                              /\ ~hist.dragging /\ ~isUserDragging,
                    \* every reported position valid and within the tolerance of
                    \* the position stored for the identity, if one is stored
                    fit |-> \A id \in DOMAIN backendData.positions :
                                /\ isValidPosition(backendData.positions[id])
                                /\ ~BeyondTolerance(id, backendData.positions)]
        /\ UNCHANGED << flags, requests, fnIn, fnOut, grabbed >>

\* cy.on('dragstart', 'node', ...) for a device node
DragStart(n) ==
    /\ cy.present
    /\ grabbed = << >>
    /\ Has(cy.nodes, n) /\ ~IsParent(cy, n)
    /\ isUserDragging' = TRUE
    /\ grabbed' = n
    /\ hist' = [op |-> "dragstart"]
    /\ UNCHANGED << canonical, cy, isLoadingData, isSilentRefreshing, loadFailed,
                    forceFullUpdate, requests, fnIn, fnOut, userMoved >>

\* cy.on('drag', 'node', ...): the engine has moved the node, the handler saves it.
Drag(position) ==
    /\ grabbed # << >>
    /\ cy' = [cy EXCEPT !.nodes[grabbed].position = position]
    /\ savedPositions' = saveNodePosition(savedPositions, grabbed, position)
    /\ userMoved' = userMoved \cup { grabbed }
    /\ hist' = [op |-> "drag"]
    /\ UNCHANGED << networkData, connectionMap, deviceStatusMap, deviceTypeMap, flags,
                    requests, fnIn, fnOut, grabbed >>

\* cy.on('dragfree', 'node', ...)
DragFree ==
    /\ grabbed # << >>
    /\ savedPositions' = saveNodePosition(savedPositions, grabbed,
                                          cy.nodes[grabbed].position)
    /\ userMoved' = userMoved \cup { grabbed }
    /\ isUserDragging' = FALSE
    /\ grabbed' = << >>
    /\ hist' = [op |-> "dragfree"]
    /\ UNCHANGED << networkData, connectionMap, deviceStatusMap, deviceTypeMap, cy,
                    isLoadingData, isSilentRefreshing, loadFailed, forceFullUpdate,
                    requests, fnIn, fnOut >>

\* cy.on('dragcancel', 'node', ...)
DragCancel ==
    /\ grabbed # << >>
    /\ isUserDragging' = FALSE
    /\ grabbed' = << >>
    /\ hist' = [op |-> "dragcancel"]
    /\ UNCHANGED << canonical, cy, isLoadingData, isSilentRefreshing, loadFailed,
                    forceFullUpdate, requests, fnIn, fnOut, userMoved >>

NextReconcile ==
    \/ \E backendData \in DragSnapshots, rnd \in RndChoices :
           CompareAndUpdateNetworkData(backendData, rnd)
    \/ \E n \in Draggable : DragStart(n)
    \/ \E position \in DragTargets : Drag(position)
    \/ DragFree
    \/ DragCancel

SpecReconcile == InitReconcile /\ [][NextReconcile]_vars

\* Snapshots answered one after the other, the user leaving the view alone.
NextRepeat ==
    \E backendData \in Snapshots, rnd \in RndChoices :
        CompareAndUpdateNetworkData(backendData, rnd)

SpecRepeat == InitReconcile /\ [][NextRepeat]_vars

\* The step just taken reconciled a snapshot with no drag in progress.
ReconciledUndragged == hist'.op = "reconcile" /\ ~hist'.dragging

(* C1 as stated: if the position store holds a user-modified position P1 for an
   identity and the backend supplies a position P2 for it that differs from P1 by
   more than the tolerance of 5 px on either axis, then after the snapshot is
   reconciled with no drag in progress the stored position is P1. *)
C1_Precedence_AsStated ==
    [][ReconciledUndragged =>
           \A id \in userMoved :
               BeyondTolerance(id, hist'.snapshot.positions) =>
                   /\ Has(savedPositions', id)
                   /\ savedPositions'[id] = savedPositions[id]]_vars

(* C1, amended: the same, for a user-modified position P1 that is a valid position,
   that is, not exactly (0,0). *)
C1_Precedence ==
    [][ReconciledUndragged =>
           \A id \in userMoved :
               ( /\ BeyondTolerance(id, hist'.snapshot.positions)
                 /\ isValidPosition(savedPositions[id]) ) =>
                   /\ Has(savedPositions', id)
                   /\ savedPositions'[id] = savedPositions[id]]_vars

\* A snapshot that put PFar for the device was reconciled and the store still holds
\* the position PA the user dragged it to, while the rendered node went to PFar.
C1_Witness ==
    /\ hist.op = "reconcile" /\ ~hist.dragging
    /\ Has(hist.snapshot.positions, IP1) /\ hist.snapshot.positions[IP1] = PFar
    /\ IP1 \in userMoved
    /\ savedPositions[IP1] = PA
    /\ Has(cy.nodes, IP1) /\ cy.nodes[IP1].position = PFar

(* C2: a device the user placed at (120,45) keeps exactly that position, in the
   position store and in the rendering engine, after a snapshot that reports (0,0)
   for it is reconciled: the invalid backend position is repaired from the saved
   position, not from a freshly computed one. *)
C2_PlacedDeviceKeepsPosition ==
    [][( /\ hist'.op = "reconcile"
         /\ Has(hist'.snapshot.positions, IP1)
         /\ hist'.snapshot.positions[IP1] = P0
         /\ IP1 \in userMoved
         /\ Has(savedPositions, IP1) /\ savedPositions[IP1] = PA
         /\ Has(cy.nodes, IP1) /\ cy.nodes[IP1].position = PA )
       => /\ Has(savedPositions', IP1) /\ savedPositions'[IP1] = PA
          /\ Has(cy'.nodes, IP1) /\ cy'.nodes[IP1].position = PA]_vars

\* The snapshot with (0,0) for the device was reconciled, the position update for it
\* was in the change-set, and the device is still where the user put it.
C2_Witness ==
    /\ hist.op = "reconcile" /\ ~hist.dragging
    /\ Has(hist.snapshot.positions, IP1) /\ hist.snapshot.positions[IP1] = P0
    /\ \E i \in 1..Len(hist.changes.positionUpdates) :
           hist.changes.positionUpdates[i] = [nodeId |-> IP1, position |-> P0]
    /\ IP1 \in userMoved
    /\ savedPositions[IP1] = PA
    /\ Has(cy.nodes, IP1) /\ cy.nodes[IP1].position = PA

(* C3: a snapshot reconciled while a drag is in progress changes no entry of the
   position store and no rendered position, while the device and link lists, the
   status map, the type map and the connection registry are replaced by the
   snapshot's. *)
C3_DragProtectsPositions ==
    [][(hist'.op = "reconcile" /\ hist'.dragging)
       => /\ savedPositions' = savedPositions
          /\ DOMAIN cy'.nodes = DOMAIN cy.nodes
          /\ \A n \in DOMAIN cy.nodes : cy'.nodes[n].position = cy.nodes[n].position
          /\ networkData' = hist'.snapshot.networkData
          /\ deviceStatusMap' = hist'.snapshot.deviceStatus
          /\ deviceTypeMap' = hist'.snapshot.deviceTypes
          /\ connectionMap' = hist'.snapshot.connectionMap]_vars

\* A snapshot with a position to apply and a device to add was reconciled during a
\* drag: the lists are the snapshot's, the store still differs from its positions.
C3_Witness ==
    /\ hist.op = "reconcile" /\ hist.dragging /\ isUserDragging
    /\ hist.changes.positionUpdates # << >>
    /\ hist.changes.newNodes # << >>
    /\ networkData = hist.snapshot.networkData
    /\ networkData.nodes # << >>
    /\ Has(hist.snapshot.positions, IP1) /\ Has(savedPositions, IP1)
    /\ savedPositions[IP1] # hist.snapshot.positions[IP1]
    /\ cy.nodes[IP1].position # hist.snapshot.positions[IP1]

\* Each listed device's status and type, where given, are the ones of the
\* snapshot's status and type maps.
SelfConsistent(backendData) ==
    \A i \in 1..Len(backendData.networkData.nodes) :
        LET n == backendData.networkData.nodes[i]
        IN  /\ n.status # << >> =>
                 Has(backendData.deviceStatus, n.id) /\ backendData.deviceStatus[n.id] = n.status
            /\ n.type # << >> =>
                 Has(backendData.deviceTypes, n.id) /\ backendData.deviceTypes[n.id] = n.type

(* C4 as stated: reconciling the same snapshot twice in succession, with a rendering
   instance, no drag in progress and nothing in between, computes an empty
   change-set the second time: no new devices, no new links, no position, status
   or type updates. *)
C4_Idempotent_AsStated ==
    (hist.op = "reconcile" /\ hist.again) => hist.changes = EmptyChanges

(* C4, amended: the second change-set has no new devices and no new links; it has no
   status and no type updates when the snapshot's devices agree with its status and
   type maps; it has no position updates when every position the snapshot reports
   is valid and within the tolerance of the position stored for the identity. *)
C4_Idempotent ==
    (hist.op = "reconcile" /\ hist.again) =>
        /\ hist.changes.newNodes = << >>
        /\ hist.changes.newEdges = << >>
        /\ SelfConsistent(hist.snapshot) =>
               hist.changes.statusUpdates = << >> /\ hist.changes.typeUpdates = << >>
        /\ hist.fit => hist.changes.positionUpdates = << >>

\* A self-consistent snapshot with two devices, a link and valid positions has been
\* reconciled a second time, and the change-set was empty.
C4_Witness ==
    /\ hist.op = "reconcile" /\ hist.again /\ hist.fit
    /\ SelfConsistent(hist.snapshot)
    /\ Len(hist.snapshot.networkData.nodes) = 2
    /\ Len(hist.snapshot.networkData.edges) = 1
    /\ Has(hist.snapshot.positions, IP1) /\ Has(hist.snapshot.positions, IP2)
    /\ savedPositions = hist.snapshot.positions
    /\ hist.changes = EmptyChanges

---------------------------------------------------------------------------
(* handleDuplicateConnection on its own                                    *)

\* The speeds and capacities of the rows, as parseSpeed returns them.
MergeValues == { 0, 3, 5, 8, 10 }

MergeTriples == [inSpeed : MergeValues, outSpeed : MergeValues, capacity : MergeValues]

\* The rendering instance showing the two devices and the links of the list.
CyShowing(edges) ==
    [present |-> TRUE,
     nodes |-> MapOf({ << IP1, CyNode(PA, << >>) >>, << IP2, CyNode(PB, << >>) >> }),
     edges |-> [i \in 1..Len(edges) |-> EdgeData(edges[i])],
     viewport |-> Viewport]

\* A first row between the two devices has been imported and is shown; a second
\* row of the same link identity, reported from the other end, is at hand.
InitMerge ==
    /\ fnIn \in [existing : MergeTriples, incoming : MergeTriples]
    /\ fnOut = NoResult
    /\ \E link \in { LinkOf(IP1, Eth0, IP2, Eth1, fnIn.existing.inSpeed,
                            fnIn.existing.outSpeed, fnIn.existing.capacity) } :
           /\ networkData = [blocks |-> << >>, nodes |-> << Node1(On, TSwitch), Node2 >>,
                             edges |-> link.edges]
           /\ connectionMap = link.conn
           /\ cy = CyShowing(link.edges)
    /\ savedPositions = MapOf({ << IP1, PA >>, << IP2, PB >> })
    /\ deviceStatusMap = BothOn
    /\ deviceTypeMap = BothTyped
    /\ isUserDragging = FALSE
    /\ isLoadingData = FALSE
    /\ isSilentRefreshing = FALSE
    /\ loadFailed = FALSE
    /\ forceFullUpdate = FALSE
    /\ inflight = { }
    /\ component = "edit"
    /\ pendingInit = 0
    /\ grabbed = << >>
    /\ userMoved = { }
    /\ hist = NoHist

MergeId == createConnectionId(IP2, Eth1, IP1, Eth0)

CallHandleDuplicateConnection ==
    /\ fnOut = NoResult
    /\ \E st \in { handleDuplicateConnection(
                       [conn |-> connectionMap, cy |-> cy], MergeId,
                       fnIn.incoming.inSpeed, fnIn.incoming.outSpeed,
                       fnIn.incoming.capacity, IP2, IP1) } :
           /\ connectionMap' = st.conn
           /\ cy' = st.cy
    /\ fnOut' = [done |-> TRUE]
    /\ UNCHANGED << networkData, savedPositions, deviceStatusMap, deviceTypeMap, flags,
                    requests, fnIn, grabbed, userMoved, hist >>

\* A further row of the same link identity that repeats what the record holds.
CallHandleDuplicateConnectionAgain ==
    /\ fnOut = [done |-> TRUE]
    /\ \E st \in { handleDuplicateConnection(
                       [conn |-> connectionMap, cy |-> cy], MergeId,
                       connectionMap[MergeId].inSpeed, connectionMap[MergeId].outSpeed,
                       connectionMap[MergeId].capacity, IP1, IP2) } :
           /\ connectionMap' = st.conn
           /\ cy' = st.cy
    /\ fnOut' = [done |-> TRUE, again |-> TRUE]
    /\ UNCHANGED << networkData, savedPositions, deviceStatusMap, deviceTypeMap, flags,
                    requests, fnIn, grabbed, userMoved, hist >>

NextMerge ==
    \/ CallHandleDuplicateConnection
    \/ CallHandleDuplicateConnectionAgain

SpecMerge == InitMerge /\ [][NextMerge]_vars

\* m is the larger of a and b, said without the operator the model merges with.
IsMaxOf(m, a, b) == m \in { a, b } /\ m >= a /\ m >= b

(* C10: handleDuplicateConnection sets inbound speed, outbound speed and capacity of
   the merged record each to the maximum of the existing and the incoming value, so
   each merged field is at least the corresponding field of both inputs, and sets the
   utilization to merged inbound / merged capacity * 100, or 0 when the merged
   capacity is 0. *)
C10_MergeTakesMaxima ==
    fnOut.done =>
        /\ IsMaxOf(connectionMap[MergeId].inSpeed,
                   fnIn.existing.inSpeed, fnIn.incoming.inSpeed)
        /\ IsMaxOf(connectionMap[MergeId].outSpeed,
                   fnIn.existing.outSpeed, fnIn.incoming.outSpeed)
        /\ IsMaxOf(connectionMap[MergeId].capacity,
                   fnIn.existing.capacity, fnIn.incoming.capacity)
        /\ connectionMap[MergeId].speedPercentage.den > 0
        /\ IF connectionMap[MergeId].capacity = 0
           THEN connectionMap[MergeId].speedPercentage.num = 0
           ELSE connectionMap[MergeId].speedPercentage.num
                    * connectionMap[MergeId].capacity
                = 100 * connectionMap[MergeId].inSpeed
                    * connectionMap[MergeId].speedPercentage.den

\* The record built from in 5, out 5, capacity 10 has been merged with in 8, out 3,
\* capacity 10: it holds 8, 5, 10 and a utilization of 80.
C10_Witness ==
    /\ fnOut.done
    /\ fnIn.existing = [inSpeed |-> 5, outSpeed |-> 5, capacity |-> 10]
    /\ fnIn.incoming = [inSpeed |-> 8, outSpeed |-> 3, capacity |-> 10]
    /\ connectionMap[MergeId].inSpeed = 8
    /\ connectionMap[MergeId].outSpeed = 5
    /\ connectionMap[MergeId].capacity = 10
    /\ connectionMap[MergeId].speedPercentage = [num |-> 80, den |-> 1]

\* The step is a merge whose observation carries the record's own inbound speed,
\* outbound speed and capacity.
MergedWithOwnValues ==
    \/ /\ fnOut = NoResult
       /\ fnOut' = [done |-> TRUE]
       /\ fnIn.incoming.inSpeed = connectionMap[MergeId].inSpeed
       /\ fnIn.incoming.outSpeed = connectionMap[MergeId].outSpeed
       /\ fnIn.incoming.capacity = connectionMap[MergeId].capacity
    \/ /\ fnOut = [done |-> TRUE]
       /\ fnOut' = [done |-> TRUE, again |-> TRUE]

(* C11: merging a link record with an observation that carries the record's own
   inbound speed, outbound speed and capacity leaves every field of the record
   unchanged: speeds, capacity, utilization, severity, colour and speed label. *)
C11_MergeIdempotent ==
    [][MergedWithOwnValues => connectionMap' = connectionMap]_vars

\* The record that a merge raised to 8, 5, 10 (utilization 80, warning) has been
\* merged once more with 8, 5, 10 and still says so.
C11_Witness ==
    /\ fnOut = [done |-> TRUE, again |-> TRUE]
    /\ fnIn.existing = [inSpeed |-> 5, outSpeed |-> 5, capacity |-> 10]
    /\ fnIn.incoming = [inSpeed |-> 8, outSpeed |-> 3, capacity |-> 10]
    /\ connectionMap[MergeId].inSpeed = 8
    /\ connectionMap[MergeId].outSpeed = 5
    /\ connectionMap[MergeId].speedStatus = "warning"
    /\ connectionMap[MergeId].speed = SpeedLabel(8, 10)

---------------------------------------------------------------------------
(* getSpeedColorInfo on its own                                            *)

\* Utilizations in tenths of a percent, on and around the thresholds.
SeverityTenths == { 0, 10, 499, 500, 501, 699, 700, 701, 899, 900, 901, 1000, 1500 }

SeverityInputs ==
    [speedPercentage : { Rat(n, 10) : n \in SeverityTenths },
     inSpeed : { 0, 3, 8 }, capacity : { 0, 5, 10 }]

InitSeverity ==
    /\ Idle
    /\ fnIn \in SeverityInputs
    /\ fnOut = NoResult

CallGetSpeedColorInfo ==
    /\ fnOut = NoResult
    /\ fnOut' = [done |-> TRUE,
                 edit |-> getSpeedColorInfo(fnIn.speedPercentage, fnIn.inSpeed,
                                            fnIn.capacity),
                 view |-> viewGetSpeedColorInfo(fnIn.speedPercentage, fnIn.inSpeed,
                                                fnIn.capacity)]
    /\ UNCHANGED << canonical, cy, flags, requests, fnIn, grabbed, userMoved, hist >>

NextSeverity == CallGetSpeedColorInfo

SpecSeverity == InitSeverity /\ [][NextSeverity]_vars

\* The severity the thresholds give a link with utilization num / den percent.
SeverityAsStated(p, inSpeed, capacity) ==
    CASE inSpeed = 0 \/ capacity = 0 -> "down"
      [] inSpeed # 0 /\ capacity # 0 /\ p.num >= 90 * p.den -> "critical"
      [] inSpeed # 0 /\ capacity # 0 /\ p.num < 90 * p.den /\ p.num >= 70 * p.den -> "warning"
      [] inSpeed # 0 /\ capacity # 0 /\ p.num < 70 * p.den /\ p.num >= 50 * p.den -> "normal"
      [] inSpeed # 0 /\ capacity # 0 /\ p.num < 50 * p.den -> "good"

(* C12: getSpeedColorInfo classifies top-down: capacity 0 or inbound 0 gives down
   whatever the other fields are; otherwise a utilization of at least 90 gives
   critical, at least 70 warning, at least 50 normal, and anything below 50 good,
   so that exactly 90 is critical, exactly 70 warning, exactly 50 normal and 49.9
   good; the edit and the view component classify identically. *)
C12_SeverityThresholds ==
    fnOut.done =>
        /\ fnOut.edit.status
               = SeverityAsStated(fnIn.speedPercentage, fnIn.inSpeed, fnIn.capacity)
        /\ fnOut.view = fnOut.edit
        /\ (fnIn.inSpeed # 0 /\ fnIn.capacity # 0) =>
               /\ fnIn.speedPercentage = Rat(900, 10) => fnOut.edit.status = "critical"
               /\ fnIn.speedPercentage = Rat(700, 10) => fnOut.edit.status = "warning"
               /\ fnIn.speedPercentage = Rat(500, 10) => fnOut.edit.status = "normal"
               /\ fnIn.speedPercentage = Rat(499, 10) => fnOut.edit.status = "good"

\* A link with inbound 8 and capacity 10 handed in at exactly 70 percent was
\* classified, by both components, as warning.
C12_Witness ==
    /\ fnOut.done
    /\ fnIn = [speedPercentage |-> [num |-> 70, den |-> 1], inSpeed |-> 8, capacity |-> 10]
    /\ fnOut.edit.status = "warning"
    /\ fnOut.view.status = "warning"

---------------------------------------------------------------------------
(* isValidPosition on its own                                              *)

\* The values a coordinate of type number takes: a finite number, NaN, Infinity
\* and -Infinity (-0 is the finite number 0: -0 === 0).
Num(v) == [kind |-> "finite", v |-> v]
NaN == [kind |-> "NaN"]
Infinity == [kind |-> "Infinity"]
NegInfinity == [kind |-> "-Infinity"]

\* no position at all (null or undefined)
NoPosition == [kind |-> "none"]

\* v === 0
IsZero(v) == v.kind = "finite" /\ v.v = 0

isNaN(v) == v.kind = "NaN"

isFinite_always(v) == TRUE

isFinite(v) == v.kind = "finite"

\* isValidPosition of the edit component, on every value of its parameter's type
isValidPositionOf(position) ==
    IF position = NoPosition THEN FALSE
    ELSE IF IsZero(position.x) /\ IsZero(position.y) THEN FALSE
    ELSE IF \/ isNaN(position.x)
            \/ isNaN(position.y)
            \/ ~isFinite(position.x)
            \/ ~isFinite(position.y)
         THEN FALSE
    ELSE TRUE

\* isValidPosition of the view component
viewIsValidPosition(position) ==
    IF position = NoPosition THEN FALSE
    ELSE IF IsZero(position.x) /\ IsZero(position.y) THEN FALSE
    ELSE IF \/ isNaN(position.x)
            \/ isNaN(position.y)
            \/ ~isFinite(position.x)
            \/ ~isFinite(position.y)
         THEN FALSE
    ELSE TRUE

Coordinates == { Num(v) : v \in { -120, -1, 0, 1, 45, 300 } } \cup { NaN, Infinity, NegInfinity }

InitValid ==
    /\ Idle
    /\ fnIn \in { NoPosition } \cup [x : Coordinates, y : Coordinates]
    /\ fnOut = NoResult

CallIsValidPosition ==
    /\ fnOut = NoResult
    /\ fnOut' = [done |-> TRUE,
                 edit |-> isValidPositionOf(fnIn),
                 view |-> viewIsValidPosition(fnIn),
                 onIntegers |->
                     IF fnIn # NoPosition /\ fnIn.x.kind = "finite" /\ fnIn.y.kind = "finite"
                     THEN isValidPosition(Pos(fnIn.x.v, fnIn.y.v))
                     ELSE FALSE]
    /\ UNCHANGED << canonical, cy, flags, requests, fnIn, grabbed, userMoved, hist >>

NextValid == CallIsValidPosition

SpecValid == InitValid /\ [][NextValid]_vars

\* v is a finite number: neither NaN nor infinite.
FiniteNumber(v) == v \notin { NaN, Infinity, NegInfinity }

(* C13: isValidPosition(p) is true if and only if p is present, p is not exactly
   (0,0), and both coordinates are finite numbers, neither NaN nor infinite;
   negative coordinates and positions with a single zero coordinate are valid.
   Both components decide alike, and on finite coordinates the test is the one
   the rest of the model uses. *)
C13_PositionValidity ==
    fnOut.done =>
        /\ fnOut.edit <=> /\ fnIn # NoPosition
                          /\ ~(fnIn.x = Num(0) /\ fnIn.y = Num(0))
                          /\ FiniteNumber(fnIn.x)
                          /\ FiniteNumber(fnIn.y)
        /\ fnOut.view = fnOut.edit
        /\ fnOut.onIntegers = fnOut.edit
        /\ fnIn \in { [x |-> Num(-120), y |-> Num(-1)], [x |-> Num(0), y |-> Num(45)],
                      [x |-> Num(-1), y |-> Num(0)] } => fnOut.edit

\* (0, 45), one coordinate zero, was found valid, by both components.
C13_Witness ==
    /\ fnOut.done
    /\ fnIn = [x |-> Num(0), y |-> Num(45)]
    /\ fnOut.edit
    /\ fnOut.view

---------------------------------------------------------------------------
(* Loading from the backend                                                *)

MaxInflight == 2       \* most requests let to be outstanding at once
MaxPendingInit == 2    \* most ngAfterViewInit timers let to be pending at once

\* The flags of the loaders and the requests they wait for, as one record.
Ctl ==
    [isLoadingData |-> isLoadingData, isSilentRefreshing |-> isSilentRefreshing,
     loadFailed |-> loadFailed, inflight |-> inflight]

SetCtl(k) ==
    /\ isLoadingData' = k.isLoadingData
    /\ isSilentRefreshing' = k.isSilentRefreshing
    /\ loadFailed' = k.loadFailed
    /\ inflight' = k.inflight

\* getDashboardTopology().subscribe(...): one more request waits for its answer.
subscribe(k, kind, silent) ==
    LET used == { r.slot : r \in k.inflight }
        slot == CHOOSE n \in 1..(Cardinality(k.inflight) + 1) :
                    n \notin used /\ \A m \in 1..(n - 1) : m \in used
    IN  [k EXCEPT !.inflight = @ \cup { [kind |-> kind, silent |-> silent, slot |-> slot] }]

\* loadNetworkData(silent) without the test of isLoadingData in normal mode
loadNetworkData_unguarded(k, silent) ==
    IF silent
    THEN IF k.isSilentRefreshing \/ k.isLoadingData THEN k
         ELSE subscribe([k EXCEPT !.isSilentRefreshing = TRUE], "load", TRUE)
    ELSE subscribe([k EXCEPT !.isLoadingData = TRUE, !.loadFailed = FALSE],
                   "load", FALSE)

\* loadNetworkData(silent) up to the subscription (TopologyComponent)
loadNetworkData(k, silent) ==
    IF silent
    THEN IF k.isSilentRefreshing \/ k.isLoadingData THEN k
         ELSE subscribe([k EXCEPT !.isSilentRefreshing = TRUE], "load", TRUE)
    ELSE IF k.isLoadingData THEN k
         ELSE subscribe([k EXCEPT !.isLoadingData = TRUE, !.loadFailed = FALSE],
                        "load", FALSE)

\* refreshNetworkDataIncrementally(silent) up to the subscription
refreshNetworkDataIncrementally(k, silent) ==
    IF silent
    THEN IF k.isSilentRefreshing \/ k.isLoadingData THEN k
         ELSE subscribe([k EXCEPT !.isSilentRefreshing = TRUE], "incremental", TRUE)
    ELSE subscribe([k EXCEPT !.isLoadingData = TRUE], "incremental", FALSE)

\* hasLocalStorageData() of TopologyComponent: local storage is disabled.
hasLocalStorageData == FALSE

\* loadStateFromLocalStorage(): all it still does is load from the backend.
loadStateFromLocalStorage(k) ==
    IF ~k.isLoadingData THEN loadNetworkData(k, FALSE) ELSE k

Null == [null |-> TRUE]

\* response.success && response.data
responseHasData_dataOnly(response) == response.data # Null

responseHasData(response) == response.success /\ response.data # Null

\* The next callback of loadNetworkData: [c, k, changes] afterwards.
loadNetworkDataNext(order, c, k, response, silent, dragging, rnd) ==
    IF responseHasData(response)
    THEN LET r == compareAndUpdateNetworkData(order, c, response.data, dragging, rnd)
             k1 == IF r.reload THEN loadNetworkData(k, FALSE) ELSE k
         IN  [c |-> r.tables, changes |-> r.changes,
              k |-> IF ~silent THEN [k1 EXCEPT !.loadFailed = FALSE] ELSE k1]
    ELSE LET k1 == IF hasLocalStorageData THEN loadStateFromLocalStorage(k) ELSE k
         IN  [c |-> c, changes |-> EmptyChanges,
              k |-> IF ~silent THEN [k1 EXCEPT !.loadFailed = TRUE] ELSE k1]

\* The error callback of loadNetworkData.
loadNetworkDataError(k, silent) ==
    LET k1 == IF hasLocalStorageData THEN loadStateFromLocalStorage(k) ELSE k
    IN  IF ~silent THEN [k1 EXCEPT !.loadFailed = TRUE] ELSE k1

\* The complete callback of either loader.
loadComplete(k, silent) ==
    IF silent THEN [k EXCEPT !.isSilentRefreshing = FALSE]
    ELSE [k EXCEPT !.isLoadingData = FALSE]

\* The next callback of refreshNetworkDataIncrementally.
refreshIncrementallyNext(order, c, k, response, silent, dragging, rnd) ==
    IF responseHasData(response)
    THEN LET r == compareAndUpdateNetworkData(order, c, response.data, dragging, rnd)
         IN  [c |-> r.tables, changes |-> r.changes,
              k |-> IF r.reload THEN loadNetworkData(k, FALSE) ELSE k]
    ELSE [c |-> c, changes |-> EmptyChanges,
          k |-> IF ~silent THEN [k EXCEPT !.isLoadingData = FALSE] ELSE k]

\* The error callback of refreshNetworkDataIncrementally.
refreshIncrementallyError(k, silent) ==
    LET k1 == IF hasLocalStorageData THEN loadStateFromLocalStorage(k) ELSE k
    IN  IF ~silent THEN [k1 EXCEPT !.isLoadingData = FALSE, !.loadFailed = TRUE] ELSE k1

\* convertToCytoscapeElements() of TopologyComponent and the instance cytoscape()
\* builds from it with the preset layout.  The data of the model lists no blocks, so
\* the loop over networkData.blocks has no iteration; a device whose parent is not
\* among the elements is added without a parent.
convertToCytoscapeElements(c) ==
    LET nodes == SelectSeq(c.nd.nodes, LAMBDA n : Trim(n.id) # << >>)
        ids == { Trim(nodes[i].id) : i \in 1..Len(nodes) }
        nodeOf(id) == nodes[CHOOSE i \in 1..Len(nodes) : Trim(nodes[i].id) = id]
        edges == SelectSeq(c.nd.edges, LAMBDA e :
                     /\ Trim(e.source) # << >> /\ Trim(e.target) # << >>
                     /\ Trim(e.source) \in ids /\ Trim(e.target) \in ids)
    IN  [status |-> [id \in (DOMAIN c.status) \cup ids |->
                        IF Has(c.status, id) THEN c.status[id] ELSE Off],
         nodes |-> [id \in ids |->
                      CyNode(IF hasSavedPosition(c.saved, id) THEN c.saved[id]
                             ELSE Pos(0, 0),
                             IF nodeOf(id).parent \in ids THEN nodeOf(id).parent
                             ELSE << >>)],
         edges |-> [i \in 1..Len(edges) |->
                      [EdgeData(edges[i]) EXCEPT !.source = Trim(edges[i].source),
                                                 !.target = Trim(edges[i].target)]]]

---------------------------------------------------------------------------
(* The read-only view, ViewNetworkTopologyComponent                        *)

\* loadNetworkData(silent) of the view up to the subscription
viewLoadNetworkData(k, silent) ==
    IF silent
    THEN IF k.isSilentRefreshing \/ k.isLoadingData THEN k
         ELSE subscribe([k EXCEPT !.isSilentRefreshing = TRUE], "load", TRUE)
    ELSE IF k.isLoadingData THEN k
         ELSE subscribe([k EXCEPT !.isLoadingData = TRUE, !.loadFailed = FALSE],
                        "load", FALSE)

\* createConnectionId(sourceId, targetId) of the view
viewCreateConnectionId(sourceId, targetId) ==
    LET sortedIds == SortPair(sourceId, targetId)
    IN  sortedIds[1] \o << ChDash >> \o sortedIds[2]

\* convertToCytoscapeElements() of the view, as the elements of the instance.
viewConvertToCytoscapeElements(c) ==
    LET nodes == SelectSeq(c.nd.nodes, LAMBDA n : Trim(n.id) # << >>)
        ids == { Trim(nodes[i].id) : i \in 1..Len(nodes) }
        nodeOf(id) == nodes[CHOOSE i \in 1..Len(nodes) : Trim(nodes[i].id) = id]
        edges == SelectSeq(c.nd.edges, LAMBDA e :
                     Trim(e.source) # << >> /\ Trim(e.target) # << >>)
        data(e) ==
            LET d == [EdgeData(e) EXCEPT !.source = Trim(e.source),
                                         !.target = Trim(e.target)]
                connectionId == viewCreateConnectionId(d.source, d.target)
            IN  IF Has(c.conn, connectionId)
                THEN [d EXCEPT !.speedColor = c.conn[connectionId].speedColor,
                               !.speedStatus = c.conn[connectionId].speedStatus,
                               !.speedPercentage = c.conn[connectionId].speedPercentage,
                               !.inSpeed = c.conn[connectionId].inSpeed,
                               !.outSpeed = c.conn[connectionId].outSpeed,
                               !.capacity = c.conn[connectionId].capacity]
                ELSE d
        \* cy.add refuses an edge whose endpoints are not among the nodes
        added == SelectSeq(edges, LAMBDA e :
                     Trim(e.source) \in ids /\ Trim(e.target) \in ids)
    IN  [nodes |-> [id \in ids |->
                      CyNode(IF Has(c.saved, id) /\ isValidPosition(c.saved[id])
                             THEN c.saved[id] ELSE Pos(0, 0),
                             IF nodeOf(id).parent \in ids THEN nodeOf(id).parent
                             ELSE << >>)],
         edges |-> [i \in 1..Len(added) |-> data(added[i])]]

\* The next callback of the view's loadNetworkData.
viewLoadNetworkDataNext(c, k, response, silent) ==
    IF responseHasData(response)
    THEN LET d == response.data
             c1 == [c EXCEPT
                      !.nd = d.networkData,
                      !.saved = d.positions,
                      !.status = [id \in { x \in DOMAIN d.deviceStatus :
                                             ToLowerCase(d.deviceStatus[x]) \in { On, Off } }
                                    |-> ToLowerCase(d.deviceStatus[id])],
                      !.conn = d.connectionMap]
             els == viewConvertToCytoscapeElements(c1)
         IN  [c |-> IF c1.cy.present
                    THEN [c1 EXCEPT !.cy.nodes = els.nodes, !.cy.edges = els.edges]
                    ELSE c1,
              k |-> IF ~silent THEN [k EXCEPT !.loadFailed = FALSE] ELSE k]
    ELSE [c |-> c, k |-> k]

\* The error callback of the view's loadNetworkData.
viewLoadNetworkDataError(k, silent) ==
    IF ~silent THEN [k EXCEPT !.loadFailed = TRUE] ELSE k

---------------------------------------------------------------------------
(* The loaders at work: calls, timers and answers                          *)

LoadSnapshots ==
    { b \in DeviceSnapshots : Len(b.networkData.nodes) > 0 /\ Has(b.deviceStatus, IP2) }

\* What the backend answers when it answers at all.
Responses ==
    { [success |-> TRUE, data |-> b] : b \in LoadSnapshots }
    \cup { [success |-> FALSE, data |-> b] : b \in { b \in LoadSnapshots :
                                                       Len(b.networkData.nodes) = 2 } }
    \cup { [success |-> TRUE, data |-> Null] }

\* How an answer is recorded: what the response was, whatever the component made of it.
Outcome(response) == IF response.success /\ response.data # Null THEN "data" ELSE "nodata"

\* The response reports no success and carries a snapshot all the same.
Partial(response) == ~response.success /\ response.data # Null

\* The component after its constructor: TopologyComponent has called
\* loadStateFromLocalStorage(), which starts a load; the view has started nothing.
\* Angular is about to call ngAfterViewInit.
InitLoad ==
    /\ networkData = [blocks |-> << >>, nodes |-> << >>, edges |-> << >>]
    /\ connectionMap = EmptyMap
    /\ savedPositions = EmptyMap
    /\ deviceStatusMap = EmptyMap
    /\ deviceTypeMap = EmptyMap
    /\ cy = NoCy
    /\ isUserDragging = FALSE
    /\ isSilentRefreshing = FALSE
    /\ loadFailed = FALSE
    /\ forceFullUpdate = FALSE
    /\ component \in { "edit", "view" }
    /\ isLoadingData = (component = "edit")
    /\ inflight = IF component = "edit"
                  THEN { [kind |-> "load", silent |-> FALSE, slot |-> 1] } ELSE { }
    /\ pendingInit = 1
    /\ fnIn = NoResult
    /\ fnOut = NoResult
    /\ grabbed = << >>
    /\ userMoved = { }
    /\ hist = NoHist

\* What a step that is not an answer leaves of the tables and the drag state.
LoaderOnly ==
    UNCHANGED << canonical, cy, isUserDragging, forceFullUpdate, component, pendingInit,
                 fnIn, fnOut, grabbed, userMoved >>

\* loadNetworkData(silent) called on TopologyComponent
LoadNetworkData(silent) ==
    LET k == loadNetworkData(Ctl, silent)
    IN  /\ component = "edit"
        /\ Cardinality(k.inflight) <= MaxInflight
        /\ SetCtl(k)
        /\ hist' = [op |-> "loadNetworkData", silent |-> silent]
        /\ LoaderOnly

\* refreshFromBackend() of TopologyComponent
RefreshFromBackend ==
    LET k == IF isLoadingData \/ isSilentRefreshing THEN Ctl
             ELSE IF forceFullUpdate THEN loadNetworkData(Ctl, TRUE)
             ELSE refreshNetworkDataIncrementally(Ctl, TRUE)
    IN  /\ component = "edit"
        /\ Cardinality(k.inflight) <= MaxInflight
        /\ SetCtl(k)
        /\ hist' = [op |-> "refreshFromBackend"]
        /\ LoaderOnly

\* enableFullUpdates() / disableIncrementalRefresh() and enableIncrementalRefresh()
SetForceFullUpdate(v) ==
    /\ component = "edit"
    /\ forceFullUpdate # v
    /\ forceFullUpdate' = v
    /\ hist' = [op |-> "setForceFullUpdate"]
    /\ UNCHANGED << canonical, cy, isUserDragging, isLoadingData, isSilentRefreshing,
                    loadFailed, requests, fnIn, fnOut, grabbed, userMoved >>

\* forceFullReinitialization(): reinitializeNetwork() empties the container and sets
\* a timer for ngAfterViewInit; the instance stays on the container element.
ForceFullReinitialization ==
    /\ component = "edit"
    /\ pendingInit < MaxPendingInit
    /\ pendingInit' = pendingInit + 1
    /\ hist' = [op |-> "forceFullReinitialization"]
    /\ UNCHANGED << canonical, cy, flags, inflight, component, fnIn, fnOut, grabbed,
                    userMoved >>

\* The timer of ngAfterViewInit() of TopologyComponent runs.
NgAfterViewInit ==
    LET k == IF ~isLoadingData THEN loadNetworkData(Ctl, FALSE) ELSE Ctl
        els == convertToCytoscapeElements(Tables)
    IN  /\ component = "edit"
        /\ pendingInit > 0
        /\ Cardinality(k.inflight) <= MaxInflight
        /\ Len(els.edges) <= MaxCyEdges
        /\ pendingInit' = pendingInit - 1
        /\ SetCtl(k)
        /\ deviceStatusMap' = els.status
        /\ cy' = [present |-> TRUE, nodes |-> els.nodes, edges |-> els.edges,
                  viewport |-> Viewport]
        /\ hist' = [op |-> "ngAfterViewInit"]
        /\ UNCHANGED << networkData, connectionMap, savedPositions, deviceTypeMap,
                        isUserDragging, forceFullUpdate, component, fnIn, fnOut,
                        grabbed, userMoved >>

\* What an answer leaves alone.
AnswerOnly ==
    UNCHANGED << isUserDragging, forceFullUpdate, component, pendingInit, fnIn, fnOut,
                 grabbed >>

StillUserMoved(c) ==
    { n \in userMoved : Has(c.saved, n) /\ c.saved[n] = savedPositions[n] }

\* A request of loadNetworkData is answered: next, then complete.
AnswerLoad(req, response, rnd) ==
    LET k0 == [Ctl EXCEPT !.inflight = @ \ { req }]
        n == loadNetworkDataNext(IdOrder, Tables, k0, response, req.silent,
                                 isUserDragging, rnd)
        k == loadComplete(n.k, req.silent)
    IN  /\ component = "edit"
        /\ req \in inflight /\ req.kind = "load"
        /\ n.c.cy.present => Len(n.c.cy.edges) <= MaxCyEdges
        /\ SetTables(n.c)
        /\ SetCtl(k)
        /\ userMoved' = StillUserMoved(n.c)
        /\ hist' = [op |-> "answer", kind |-> req.kind, silent |-> req.silent,
                    outcome |-> Outcome(response), partial |-> Partial(response),
                    followups |-> Cardinality(k.inflight) - Cardinality(k0.inflight)]
        /\ AnswerOnly

\* A request of loadNetworkData fails: error, and no complete.
ErrorLoad(req) ==
    LET k0 == [Ctl EXCEPT !.inflight = @ \ { req }]
        k == loadNetworkDataError(k0, req.silent)
    IN  /\ component = "edit"
        /\ req \in inflight /\ req.kind = "load"
        /\ SetCtl(k)
        /\ hist' = [op |-> "answer", kind |-> req.kind, silent |-> req.silent,
                    outcome |-> "error", partial |-> FALSE]
        /\ LoaderOnly

\* A request of refreshNetworkDataIncrementally is answered: next, then complete.
AnswerIncremental(req, response, rnd) ==
    LET k0 == [Ctl EXCEPT !.inflight = @ \ { req }]
        n == refreshIncrementallyNext(IdOrder, Tables, k0, response, req.silent,
                                      isUserDragging, rnd)
        k == loadComplete(n.k, req.silent)
    IN  /\ component = "edit"
        /\ req \in inflight /\ req.kind = "incremental"
        /\ n.c.cy.present => Len(n.c.cy.edges) <= MaxCyEdges
        /\ SetTables(n.c)
        /\ SetCtl(k)
        /\ userMoved' = StillUserMoved(n.c)
        /\ hist' = [op |-> "answer", kind |-> req.kind, silent |-> req.silent,
                    outcome |-> Outcome(response), partial |-> Partial(response),
                    followups |-> Cardinality(k.inflight) - Cardinality(k0.inflight)]
        /\ AnswerOnly

\* A request of refreshNetworkDataIncrementally fails: error, and no complete.
ErrorIncremental(req) ==
    LET k0 == [Ctl EXCEPT !.inflight = @ \ { req }]
        k == refreshIncrementallyError(k0, req.silent)
    IN  /\ component = "edit"
        /\ req \in inflight /\ req.kind = "incremental"
        /\ SetCtl(k)
        /\ hist' = [op |-> "answer", kind |-> req.kind, silent |-> req.silent,
                    outcome |-> "error", partial |-> FALSE]
        /\ LoaderOnly

\* The timer of ngAfterViewInit() of the view runs.
ViewNgAfterViewInit ==
    LET k == IF ~isLoadingData THEN viewLoadNetworkData(Ctl, FALSE) ELSE Ctl
        els == viewConvertToCytoscapeElements(Tables)
    IN  /\ component = "view"
        /\ pendingInit > 0
        /\ Cardinality(k.inflight) <= MaxInflight
        /\ pendingInit' = pendingInit - 1
        /\ SetCtl(k)
        /\ cy' = [present |-> TRUE, nodes |-> els.nodes, edges |-> els.edges,
                  viewport |-> Viewport]
        /\ hist' = [op |-> "ngAfterViewInit"]
        /\ UNCHANGED << canonical, isUserDragging, forceFullUpdate, component, fnIn,
                        fnOut, grabbed, userMoved >>

\* refreshFromBackend() of the view
ViewRefreshFromBackend ==
    LET k == IF isLoadingData \/ isSilentRefreshing THEN Ctl
             ELSE viewLoadNetworkData(Ctl, TRUE)
    IN  /\ component = "view"
        /\ Cardinality(k.inflight) <= MaxInflight
        /\ SetCtl(k)
        /\ hist' = [op |-> "refreshFromBackend"]
        /\ LoaderOnly

\* The interval of startAutoRefresh() fires: loadNetworkData(true)
ViewAutoRefresh ==
    LET k == viewLoadNetworkData(Ctl, TRUE)
    IN  /\ component = "view"
        /\ Cardinality(k.inflight) <= MaxInflight
        /\ SetCtl(k)
        /\ hist' = [op |-> "autoRefresh"]
        /\ LoaderOnly

\* A request of the view's loadNetworkData is answered: next, then complete.
ViewAnswerLoad(req, response) ==
    LET k0 == [Ctl EXCEPT !.inflight = @ \ { req }]
        n == viewLoadNetworkDataNext(Tables, k0, response, req.silent)
        k == loadComplete(n.k, req.silent)
    IN  /\ component = "view"
        /\ req \in inflight
        /\ SetTables(n.c)
        /\ SetCtl(k)
        /\ userMoved' = StillUserMoved(n.c)
        /\ hist' = [op |-> "answer", kind |-> req.kind, silent |-> req.silent,
                    outcome |-> Outcome(response), partial |-> Partial(response)]
        /\ AnswerOnly

\* A request of the view's loadNetworkData fails: error, and no complete.
ViewErrorLoad(req) ==
    LET k0 == [Ctl EXCEPT !.inflight = @ \ { req }]
        k == viewLoadNetworkDataError(k0, req.silent)
    IN  /\ component = "view"
        /\ req \in inflight
        /\ SetCtl(k)
        /\ hist' = [op |-> "answer", kind |-> req.kind, silent |-> req.silent,
                    outcome |-> "error", partial |-> FALSE]
        /\ LoaderOnly

NextLoad ==
    \/ \E silent \in BOOLEAN : LoadNetworkData(silent)
    \/ RefreshFromBackend
    \/ \E v \in BOOLEAN : SetForceFullUpdate(v)
    \/ ForceFullReinitialization
    \/ NgAfterViewInit
    \/ \E req \in inflight, response \in Responses, rnd \in RndChoices :
           AnswerLoad(req, response, rnd)
    \/ \E req \in inflight : ErrorLoad(req)
    \/ \E req \in inflight, response \in Responses, rnd \in RndChoices :
           AnswerIncremental(req, response, rnd)
    \/ \E req \in inflight : ErrorIncremental(req)
    \/ ViewNgAfterViewInit
    \/ ViewRefreshFromBackend
    \/ ViewAutoRefresh
    \/ \E req \in inflight, response \in Responses : ViewAnswerLoad(req, response)
    \/ \E req \in inflight : ViewErrorLoad(req)

SpecLoad == InitLoad /\ [][NextLoad]_vars

\* The step just taken ended a load in failure: an error, or a response without
\* success or without data.
LoadFailedNow == hist'.op = "answer" /\ hist'.outcome # "data"

(* C5: non-reentrancy.  Under any interleaving of loadNetworkData (silent or not),
   refreshFromBackend, refreshNetworkDataIncrementally and ngAfterViewInit, no load is
   started while an earlier one has not completed: at most one load is in flight. *)
C5_AtMostOneLoadInFlight ==
    Cardinality(inflight) <= 1

(* C6: a load that ends in an error or in a response without success or data leaves
   the canonical state as it was: device list, link list, groups, position store,
   status map, type map and connection registry are unchanged by the failing answer,
   and nothing of a snapshot the response may carry is merged. *)
C6_FailedLoadKeepsState ==
    [][LoadFailedNow => UNCHANGED canonical]_vars

\* A response without success that carried a snapshot of two devices has just been
\* handled, with one device loaded and shown: the tables still list that one device.
C6_Witness ==
    /\ hist.op = "answer" /\ hist.outcome = "nodata" /\ hist.partial
    /\ cy.present
    /\ Len(networkData.nodes) = 1
    /\ Has(deviceStatusMap, IP2) /\ ~Has(deviceStatusMap, IP1)

(* C7: whenever a load fails (the call errors, or the response carries no success or
   no data), loadFailed is true once the load has ended, on every load path
   (loadNetworkData, refreshFromBackend, refreshNetworkDataIncrementally). *)
C7_FailureIsReported ==
    [][LoadFailedNow => loadFailed']_vars

---------------------------------------------------------------------------
(* Importing a spreadsheet: insertVulnerabilityScan                        *)

MaxRows == 2           \* most rows of a spreadsheet

ChDot == 46
ChNewline == 10

CoreIPa == << 49, 48, 46, 57, 57, 46, 49, 56, 46, 50, 53, 51 >>   \* "10.99.18.253"
CoreIPb == << 49, 48, 46, 57, 57, 46, 49, 56, 46, 50, 53, 52 >>   \* "10.99.18.254"
TCoreSwitch == << 99, 111, 114, 101, 95, 115, 119, 105, 116, 99, 104 >>   \* "core_switch"
TServer == << 115, 101, 114, 118, 101, 114 >>   \* "server"
TExtSwitch == << 101, 120, 116, 95, 115, 119, 105, 116, 99, 104 >>   \* "ext_switch"
TIsp == << 105, 115, 112 >>   \* "isp"
InternetBlock == << 105, 110, 116, 101, 114, 110, 101, 116, 45, 98, 108, 111, 99, 107 >>   \* "internet-block"
OobBlock == << 111, 111, 98, 45, 98, 108, 111, 99, 107 >>   \* "oob-block"
WanBlock == << 119, 97, 110, 45, 98, 108, 111, 99, 107 >>   \* "wan-block"
ReplicationBlock == << 114, 101, 112, 108, 105, 99, 97, 116, 105, 111, 110, 45, 98, 108, 111, 99, 107 >>   \* "replication-block"
DatacenterBlock == << 100, 97, 116, 97, 99, 101, 110, 116, 101, 114, 45, 98, 108, 111, 99, 107 >>   \* "datacenter-block"
ExtranetBlock == << 101, 120, 116, 114, 97, 110, 101, 116, 45, 98, 108, 111, 99, 107 >>   \* "extranet-block"
VisibilityBlock == << 118, 105, 115, 105, 98, 105, 108, 105, 116, 121, 45, 98, 108, 111, 99, 107 >>   \* "visibility-block"
DmzBlock == << 100, 109, 122, 45, 98, 108, 111, 99, 107 >>   \* "dmz-block"
IpsBlock == << 105, 112, 115, 45, 98, 108, 111, 99, 107 >>   \* "ips-block"
ExternalBlock == << 101, 120, 116, 101, 114, 110, 97, 108, 45, 98, 108, 111, 99, 107 >>   \* "external-block"
AutoBySnmp == << 65, 117, 116, 111, 32, 98, 121, 32, 115, 110, 109, 112 >>   \* "Auto by snmp"
NameFw == << 102, 119, 49 >>   \* "fw1"
NameSw == << 115, 119, 50 >>   \* "sw2"
EthUpper0 == << 69, 84, 72, 48 >>   \* "ETH0"
EthUpper1 == << 69, 84, 72, 49 >>   \* "ETH1"

Includes(s, sub) ==
    \E i \in 0..(Len(s) - Len(sub)) : SubSeq(s, i + 1, i + Len(sub)) = sub

IsDigit(ch) == ch \in 48..57

RECURSIVE DecimalValue(_)
DecimalValue(digits) ==
    IF digits = << >> THEN 0
    ELSE 10 * DecimalValue(SubSeq(digits, 1, Len(digits) - 1))
         + (digits[Len(digits)] - 48)

\* The pieces of s between the occurrences of ch.
RECURSIVE SplitOn(_, _)
SplitOn(s, ch) ==
    IF \A i \in 1..Len(s) : s[i] # ch THEN << s >>
    ELSE LET at == CHOOSE i \in 1..Len(s) :
                       s[i] = ch /\ \A j \in 1..(i - 1) : s[j] # ch
         IN  << SubSeq(s, 1, at - 1) >> \o SplitOn(SubSeq(s, at + 1, Len(s)), ch)

\* 25[0-5]|2[0-4][0-9]|[01]?[0-9][0-9]?
IsOctet(g) ==
    /\ Len(g) \in 1..3
    /\ \A i \in 1..Len(g) : IsDigit(g[i])
    /\ DecimalValue(g) <= 255

IsDottedQuad(groups) ==
    Len(groups) = 4 /\ \A i \in 1..4 : IsOctet(groups[i])

isIPAddress(value) ==
    IF value = << >> THEN FALSE ELSE IsDottedQuad(SplitOn(Trim(value), ChDot))

\* parseFloat of what is left of the cell when all but digits and dots is removed.
\* The cells of the model hold no dot, so what is left is a whole number or nothing.
DigitsOf(speedStr) ==
    Flatten([i \in 1..Len(speedStr) |->
               IF IsDigit(speedStr[i]) \/ speedStr[i] = ChDot
               THEN << speedStr[i] >> ELSE << >>])

parseSpeed(speedStr) ==
    IF speedStr = << >> THEN 0
    ELSE IF DigitsOf(speedStr) = << >> THEN 0
    ELSE DecimalValue(DigitsOf(speedStr))

\* 'on' | 'off' | null (the empty string stands for null)
normalizeStatusOf(normalized) ==
    IF normalized \in { << 111, 110 >>, << 111, 110, 108, 105, 110, 101 >>, << 117, 112 >>, << 97, 99, 116, 105, 118, 101 >> }
    THEN On
    ELSE IF normalized \in { << 111, 102, 102 >>, << 111, 102, 102, 108, 105, 110, 101 >>, << 100, 111, 119, 110 >>, << 105, 110, 97, 99, 116, 105, 118, 101 >> }
    THEN Off
    ELSE << >>

normalizeStatus(status) ==
    IF status = << >> THEN << >> ELSE normalizeStatusOf(Trim(ToLowerCase(status)))

normalizeDeviceType(type) ==
    IF type = << >> THEN << >> ELSE Trim(ToLowerCase(type))

determineDeviceStatus(deviceIP, providedStatus, inSpeed, outSpeed) ==
    IF providedStatus # << >> /\ normalizeStatus(providedStatus) # << >>
    THEN normalizeStatus(providedStatus)
    ELSE IF inSpeed > 0 THEN On ELSE Off

\* getDeviceType for a row without a type column.
DeviceTypeOfName(name) ==
    IF Includes(name, << 67, 79, 82, 45, 67, 45, 83, 87 >>) THEN TCoreSwitch
    ELSE IF Includes(name, << 70, 87 >>) THEN TFirewall
    ELSE IF Includes(name, << 82, 79 >>) \/ Includes(name, << 82, 48 >>) THEN TRouter
    ELSE IF Includes(name, << 83, 82, 86 >>) \/ Includes(name, << 83, 69, 82, 86, 69, 82 >>) THEN TServer
    ELSE IF Includes(name, << 69, 88, 84 >>) THEN TExtSwitch
    ELSE TFirewall

getDeviceType(deviceName, deviceIP) ==
    IF deviceIP = CoreIPa \/ deviceIP = CoreIPb THEN TCoreSwitch
    ELSE DeviceTypeOfName(ToUpperCase(deviceName))

\* The group of a name; the empty string stands for undefined.
ParentBlockOfName(name) ==
    IF Includes(name, << 73, 78, 84 >>) THEN InternetBlock
    ELSE IF Includes(name, << 79, 79, 66 >>) THEN OobBlock
    ELSE IF Includes(name, << 87, 65, 78 >>) THEN WanBlock
    ELSE IF Includes(name, << 79, 84, 86 >>) THEN ReplicationBlock
    ELSE IF Includes(name, << 68, 67 >>) THEN DatacenterBlock
    ELSE IF Includes(name, << 69, 88, 84, 82, 65, 78, 69, 84 >>) \/ Includes(name, << 69, 88, 84, 78 >>)
    THEN ExtranetBlock
    ELSE IF Includes(name, << 86, 73, 83, 73, 66, 73, 76, 73, 84, 89 >>) \/ Includes(name, << 86, 73, 83 >>)
    THEN VisibilityBlock
    ELSE IF Includes(name, << 68, 77, 90 >>) THEN DmzBlock
    ELSE IF Includes(name, << 73, 80, 83 >>) THEN IpsBlock
    ELSE IF Includes(name, << 69, 88, 84 >>) THEN ExternalBlock
    ELSE IF Includes(name, << 67, 79, 82 >>) THEN CoreBlock
    ELSE << >>

determineParentBlock(deviceName, deviceIP, deviceType) ==
    IF deviceIP = CoreIPa \/ deviceIP = CoreIPb THEN CoreBlock
    ELSE IF deviceType = TCoreSwitch THEN CoreBlock
    ELSE IF deviceType = TIsp THEN << >>
    ELSE ParentBlockOfName(ToUpperCase(deviceName))

\* a: the tables and the lists insertVulnerabilityScan builds while it reads the rows,
\* [nd, conn, saved, status, type, cy, newNodes, newEdges, deviceUpdates, existingNodeIds].
createOrUpdateNodeIncremental(a, deviceIP, deviceName, deviceType) ==
    IF deviceIP \in a.existingNodeIds
       \/ \E i \in 1..Len(a.newNodes) : a.newNodes[i].id = deviceIP
    THEN a
    ELSE [a EXCEPT
            !.newNodes = Append(@, [id |-> deviceIP,
                                    label |-> deviceName \o << ChNewline >> \o deviceIP,
                                    type |-> deviceType,
                                    parent |-> determineParentBlock(deviceName, deviceIP,
                                                                    deviceType),
                                    status |-> << >>]),
            !.nd.nodes = Append(@, [id |-> deviceIP,
                                    label |-> deviceName \o << ChNewline >> \o deviceIP,
                                    type |-> deviceType,
                                    parent |-> determineParentBlock(deviceName, deviceIP,
                                                                    deviceType),
                                    status |-> << >>]),
            !.existingNodeIds = @ \cup { deviceIP }]

\* The update pushed for a device that exists; the empty string stands for a field
\* the update does not have.
DeviceUpdateFor(a, deviceIP, normalizedStatus, normalizedType) ==
    [id |-> deviceIP,
     status |-> IF /\ normalizedStatus # << >>
                   /\ ~(Has(a.status, deviceIP) /\ a.status[deviceIP] = normalizedStatus)
                THEN normalizedStatus ELSE << >>,
     type |-> IF /\ normalizedType # << >>
                 /\ ~(Has(a.type, deviceIP) /\ a.type[deviceIP] = normalizedType)
              THEN normalizedType ELSE << >>]

PushDeviceUpdate(a, update) ==
    IF update.status = << >> /\ update.type = << >> THEN a
    ELSE [a EXCEPT !.deviceUpdates = Append(@, update)]

\* The new device is entered in the status and type maps.
EnterNewDevice(a, deviceIP, deviceTypeForNode, deviceStatusForNode) ==
    [a EXCEPT !.status = Put(@, deviceIP, deviceStatusForNode),
              !.type = Put(@, deviceIP, deviceTypeForNode)]

NormalizedUpdate(a, deviceIP, deviceName, normalizedType, normalizedStatus) ==
    IF deviceIP \in a.existingNodeIds
    THEN PushDeviceUpdate(a, DeviceUpdateFor(a, deviceIP, normalizedStatus, normalizedType))
    ELSE EnterNewDevice(
             createOrUpdateNodeIncremental(
                 a, deviceIP, deviceName,
                 IF normalizedType # << >> THEN normalizedType ELSE TFirewall),
             deviceIP,
             IF normalizedType # << >> THEN normalizedType ELSE TFirewall,
             IF normalizedStatus # << >> THEN normalizedStatus ELSE Off)

processDeviceUpdate(a, deviceIP, deviceName, deviceType, deviceStatus) ==
    NormalizedUpdate(a, deviceIP, deviceName, normalizeDeviceType(deviceType),
                     normalizeStatus(deviceStatus))

\* createNewEdge on the lists of the import.
ImportNewEdge(a, st) ==
    [a EXCEPT !.conn = st.conn, !.newEdges = st.newEdges, !.nd.edges = st.edges]

\* The part of a row's iteration after the two devices: the link.
ImportLink(a, connectionId, deviceAIP, deviceBIP, inSpeed, outSpeed, capacity, interface_a, interface_b) ==
    IF Has(a.conn, connectionId)
    THEN handleDuplicateConnection(a, connectionId, inSpeed, outSpeed, capacity,
                                   deviceAIP, deviceBIP)
    ELSE ImportNewEdge(a,
             createNewEdge([conn |-> a.conn, newEdges |-> a.newEdges,
                            edges |-> a.nd.edges],
                           deviceAIP, deviceBIP, inSpeed, outSpeed, capacity,
                           interface_a, interface_b, AutoBySnmp))

\* One iteration of the loop over the rows, the columns read and the speeds parsed.
ImportRow(a, deviceAIP, deviceAName, deviceBIP, deviceBName, inSpeed, outSpeed, capacity, interface_a, interface_b) ==
    IF deviceAIP = << >> \/ deviceBIP = << >> \/ deviceAName = << >> \/ deviceBName = << >>
    THEN a
    ELSE ImportLink(
             processDeviceUpdate(
                 processDeviceUpdate(
                     a, deviceAIP, deviceAName, getDeviceType(deviceAName, deviceAIP),
                     determineDeviceStatus(deviceAIP, << >>, inSpeed, outSpeed)),
                 deviceBIP, deviceBName, getDeviceType(deviceBName, deviceBIP),
                 determineDeviceStatus(deviceBIP, << >>, inSpeed, outSpeed)),
             createConnectionId(deviceAIP, interface_a, deviceBIP, interface_b),
             deviceAIP, deviceBIP, inSpeed, outSpeed, capacity, interface_a, interface_b)

\* The row's columns: "Device A Name" and "Device A IP" are taken the other way
\* round when the name column holds an address.
ReadRow(a, row) ==
    ImportRow(a,
              IF isIPAddress(row.DeviceAName) THEN row.DeviceAName ELSE row.DeviceAIP,
              IF isIPAddress(row.DeviceAName) THEN row.DeviceAIP ELSE row.DeviceAName,
              row.DeviceBIP, row.DevicebName,
              parseSpeed(row.INSpeed), parseSpeed(row.OutSpeed), parseSpeed(row.capacity),
              row.interface, row.interface_1)

RECURSIVE ReadRows(_, _)
ReadRows(a, fileData) ==
    IF fileData = << >> THEN a
    ELSE ReadRows(ReadRow(a, Head(fileData)), Tail(fileData))

hasNetworkData(nd) == Len(nd.nodes) > 0 \/ Len(nd.edges) > 0

shouldDoFullReinitialization(a, force) ==
    \/ force
    \/ ~a.cy.present
    \/ Len(a.nd.nodes) = 0
    \/ Len(a.nd.nodes) = Len(a.newNodes) /\ Len(a.newNodes) > 0

ApplyDeviceUpdate_slip(c, update) ==
    IF ~Has(c.cy.nodes, update.id) THEN c
    ELSE [c EXCEPT
            !.status = IF update.status # << >> THEN Put(@, update.id, update.status)
                       ELSE @,
            !.type = IF update.status # << >> THEN Put(@, update.id, update.status) ELSE @]

ApplyDeviceUpdate(c, update) ==
    IF ~Has(c.cy.nodes, update.id) THEN c
    ELSE [c EXCEPT
            !.status = IF update.status # << >> THEN Put(@, update.id, update.status)
                       ELSE @,
            !.type = IF update.type # << >> THEN Put(@, update.id, update.type) ELSE @]

RECURSIVE processDeviceUpdatesIncrementally(_, _)
processDeviceUpdatesIncrementally(c, deviceUpdates) ==
    IF deviceUpdates = << >> \/ ~c.cy.present THEN c
    ELSE processDeviceUpdatesIncrementally(ApplyDeviceUpdate(c, Head(deviceUpdates)),
                                           Tail(deviceUpdates))

\* The branch of insertVulnerabilityScan taken when no full reinitialisation is due.
ImportIncrementally(a, rnd) ==
    AddIfAny(processDeviceUpdatesIncrementally(a, a.deviceUpdates),
             [newNodes |-> a.newNodes, newEdges |-> a.newEdges], rnd)

\* The rows read into the tables: what the import starts from.
ImportStart(c) ==
    [nd |-> c.nd, conn |-> c.conn, saved |-> c.saved, status |-> c.status,
     type |-> c.type, cy |-> c.cy,
     newNodes |-> << >>, newEdges |-> << >>, deviceUpdates |-> << >>,
     existingNodeIds |-> NodeIds(c.nd.nodes)]

\* insertVulnerabilityScan: the tables afterwards, whether forceFullUpdate was
\* cleared, and the number of ngAfterViewInit timers set.
ImportOutcome(a, force, wasEmpty, rnd) ==
    [tables |-> IF shouldDoFullReinitialization(a, force) THEN a
                ELSE ImportIncrementally(a, rnd),
     full |-> shouldDoFullReinitialization(a, force),
     timers |-> (IF shouldDoFullReinitialization(a, force) THEN 1 ELSE 0)
                + (IF wasEmpty /\ hasNetworkData(a.nd) THEN 1 ELSE 0)]

insertVulnerabilityScan(c, fileData, force, rnd) ==
    ImportOutcome(ReadRows(ImportStart(c), fileData), force, ~hasNetworkData(c.nd), rnd)

---------------------------------------------------------------------------
(* Imports at work                                                         *)

Row(deviceAName, deviceAIP, deviceBIP, deviceBName, inSpeed, outSpeed, capacity, interface_a, interface_b) ==
    [DeviceAName |-> deviceAName, DeviceAIP |-> deviceAIP, DeviceBIP |-> deviceBIP,
     DevicebName |-> deviceBName, INSpeed |-> inSpeed, OutSpeed |-> outSpeed,
     capacity |-> capacity, interface |-> interface_a, interface_1 |-> interface_b]

\* 10.0.0.1/eth0 to 10.0.0.2/eth1: in 5, out 5, capacity 10
RowAB == Row(NameFw, IP1, IP2, NameSw, << 53 >>, << 53 >>, << 49, 48 >>, Eth0, Eth1)
\* the same link seen from the other end: in 8, out 3, capacity 10
RowBA == Row(NameSw, IP2, IP1, NameFw, << 56 >>, << 51 >>, << 49, 48 >>, Eth1, Eth0)
\* the same link with the interfaces in capitals: in "10G", out 0, capacity 5
RowUpper == Row(NameFw, IP1, IP2, NameSw, << 49, 48, 71 >>, << 48 >>, << 53 >>,
                EthUpper0, EthUpper1)

ImportRows == { RowAB, RowBA, RowUpper }

ImportFiles == SeqsUpTo(ImportRows, MaxRows) \ { << >> }

\* What a row says of its link, when the row is not skipped.
RowIsRead(row) ==
    /\ row.DeviceAName # << >> /\ row.DeviceAIP # << >>
    /\ row.DeviceBIP # << >> /\ row.DevicebName # << >>

Observation(row) ==
    [id |-> createConnectionId(
                IF isIPAddress(row.DeviceAName) THEN row.DeviceAName ELSE row.DeviceAIP,
                row.interface, row.DeviceBIP, row.interface_1),
     inSpeed |-> parseSpeed(row.INSpeed), outSpeed |-> parseSpeed(row.OutSpeed),
     capacity |-> parseSpeed(row.capacity)]

Observations(fileData) ==
    { Observation(fileData[i]) : i \in { j \in 1..Len(fileData) : RowIsRead(fileData[j]) } }

\* TopologyComponent after its constructor, which has started a load; nothing has
\* been imported.  The backend does not answer the loads of this specification.
InitImport ==
    /\ networkData = [blocks |-> << >>, nodes |-> << >>, edges |-> << >>]
    /\ connectionMap = EmptyMap
    /\ savedPositions = EmptyMap
    /\ deviceStatusMap = EmptyMap
    /\ deviceTypeMap = EmptyMap
    /\ cy = NoCy
    /\ isUserDragging = FALSE
    /\ isSilentRefreshing = FALSE
    /\ loadFailed = FALSE
    /\ forceFullUpdate = FALSE
    /\ component = "edit"
    /\ isLoadingData = TRUE
    /\ inflight = { [kind |-> "load", silent |-> FALSE, slot |-> 1] }
    /\ pendingInit = 1
    /\ fnIn = [seen |-> { }]
    /\ fnOut = NoResult
    /\ grabbed = << >>
    /\ userMoved = { }
    /\ hist = NoHist

\* A spreadsheet has been read: insertVulnerabilityScan()
InsertVulnerabilityScan(fileData, rnd) ==
    /\ component = "edit"
    /\ fileData # << >>
    /\ \E r \in { insertVulnerabilityScan(Tables, fileData, forceFullUpdate, rnd) } :
           /\ pendingInit + r.timers <= MaxPendingInit
           /\ r.tables.cy.present => Len(r.tables.cy.edges) <= MaxCyEdges
           /\ SetTables(r.tables)
           /\ forceFullUpdate' = IF r.full THEN FALSE ELSE forceFullUpdate
           /\ pendingInit' = pendingInit + r.timers
           /\ userMoved' = StillUserMoved(r.tables)
           /\ hist' = [op |-> "import", full |-> r.full, fileData |-> fileData]
    /\ fnIn' = [seen |-> fnIn.seen \cup Observations(fileData)]
    /\ UNCHANGED << isUserDragging, isLoadingData, isSilentRefreshing, loadFailed,
                    inflight, component, fnOut, grabbed >>

NextImport ==
    \/ \E fileData \in ImportFiles, rnd \in RndChoices :
           InsertVulnerabilityScan(fileData, rnd)
    \/ NgAfterViewInit
    \/ \E req \in inflight : ErrorLoad(req)

SpecImport == InitImport /\ [][NextImport]_vars

\* The canonical identity of a link of the canonical link list.
EdgeIdentity(e) ==
    createConnectionId(e.source, e.metadata.interface_a, e.target, e.metadata.interface_b)

SeenFor(id) == { o \in fnIn.seen : o.id = id }

MaxOver(S) == CHOOSE m \in S : \A x \in S : m >= x

\* One record in the registry and one link in the list for every identity observed.
OneLinkPerIdentity ==
    /\ DOMAIN connectionMap = { o.id : o \in fnIn.seen }
    /\ \A id \in DOMAIN connectionMap :
           Cardinality({ i \in 1..Len(networkData.edges) :
                           EdgeIdentity(networkData.edges[i]) = id }) = 1
    /\ \A i \in 1..Len(networkData.edges) :
           EdgeIdentity(networkData.edges[i]) \in DOMAIN connectionMap

\* The registry's record of an identity holds the maxima over the rows observed.
RegistryHoldsMaxima ==
    \A id \in DOMAIN connectionMap :
        /\ connectionMap[id].inSpeed = MaxOver({ o.inSpeed : o \in SeenFor(id) })
        /\ connectionMap[id].outSpeed = MaxOver({ o.outSpeed : o \in SeenFor(id) })
        /\ connectionMap[id].capacity = MaxOver({ o.capacity : o \in SeenFor(id) })

\* The link of the canonical list says what the registry's record says.
LinkListHoldsMaxima ==
    \A i \in 1..Len(networkData.edges) :
        \A id \in { EdgeIdentity(networkData.edges[i]) } \cap DOMAIN connectionMap :
            /\ networkData.edges[i].metadata.inSpeed = G(connectionMap[id].inSpeed)
            /\ networkData.edges[i].metadata.outSpeed = G(connectionMap[id].outSpeed)
            /\ networkData.edges[i].metadata.capacity = G(connectionMap[id].capacity)
            /\ networkData.edges[i].metadata.speedPercentage
                   = connectionMap[id].speedPercentage
            /\ networkData.edges[i].metadata.speedStatus = connectionMap[id].speedStatus

\* The two rows of the scenario, and nothing else, have been observed.
ScenarioObserved == fnIn.seen = Observations(<< RowAB, RowBA >>)

(* C9: after any sequence of import rows the registry holds exactly one link record,
   and the canonical link list exactly one link, per canonical identity, and its
   inbound, outbound and capacity are the maxima over all rows observed for the
   identity; the rows (10.0.0.1/eth0, 10.0.0.2/eth1, 5, 5, 10) and (10.0.0.2/eth1,
   10.0.0.1/eth0, 8, 3, 10) give one link with in 8, out 5, capacity 10, utilization
   80% and severity warning. *)
C9_OneMergedLinkPerIdentity ==
    /\ OneLinkPerIdentity
    /\ RegistryHoldsMaxima
    /\ LinkListHoldsMaxima
    /\ ScenarioObserved =>
           \A id \in DOMAIN connectionMap :
               /\ connectionMap[id].speedPercentage = [num |-> 80, den |-> 1]
               /\ connectionMap[id].speedStatus = "warning"

---------------------------------------------------------------------------
(* Imports of rows that are skipped, that repeat a device, that rename it   *)

NameRo == << 82, 79, 49 >>   \* "RO1"

\* the row of RowAB without a name for device A
RowNoAName == Row(<< >>, IP1, IP2, NameSw, << 53 >>, << 53 >>, << 49, 48 >>, Eth0, Eth1)
\* the link seen from the other end with no traffic on it
RowIdle == Row(NameSw, IP2, IP1, NameFw, << 48 >>, << 48 >>, << 49, 48 >>, Eth1, Eth0)
\* the row of RowAB with another name, a router's, for device A
RowRenamed == Row(NameRo, IP1, IP2, NameSw, << 53 >>, << 53 >>, << 49, 48 >>, Eth0, Eth1)

SessionRows == { RowAB, RowNoAName, RowIdle, RowRenamed }

SessionFiles == SeqsUpTo(SessionRows, MaxRows) \ { << >> }

NextRows ==
    \/ \E fileData \in SessionFiles, rnd \in RndChoices :
           InsertVulnerabilityScan(fileData, rnd)
    \/ NgAfterViewInit
    \/ \E req \in inflight : ErrorLoad(req)

SpecRows == InitImport /\ [][NextRows]_vars

\* Sessions of imports of rows that name both devices.
NamedRows == { RowAB, RowIdle, RowRenamed }

NamedFiles == SeqsUpTo(NamedRows, MaxRows) \ { << >> }

NextNamedRows ==
    \/ \E fileData \in NamedFiles, rnd \in RndChoices :
           InsertVulnerabilityScan(fileData, rnd)
    \/ NgAfterViewInit
    \/ \E req \in inflight : ErrorLoad(req)

SpecNamedRows == InitImport /\ [][NextNamedRows]_vars

\* The rows of the file just imported.
ImportedRows == { hist'.fileData[i] : i \in 1..Len(hist'.fileData) }

\* The row names no device A but has the address and the name of device B.
LacksAName(row) ==
    row.DeviceAName = << >> /\ row.DeviceBIP # << >> /\ row.DevicebName # << >>

\* Every device the import added is a device of a row that was not skipped.
SkippedRowCreatesNoDeviceA ==
    \A id \in NodeIds(networkData'.nodes) \ NodeIds(networkData.nodes) :
        \E row \in ImportedRows :
            RowIsRead(row) /\ id \in { row.DeviceAIP, row.DeviceBIP }

\* Device B of a row without a device-A name is in the device list.
DeviceBOfSkippedRowCreated ==
    \A row \in ImportedRows :
        LacksAName(row) => row.DeviceBIP \in NodeIds(networkData'.nodes)

\* The devices of the other rows of the file are in the device list.
RemainingRowsProcessed ==
    \A row \in ImportedRows :
        RowIsRead(row) => { row.DeviceAIP, row.DeviceBIP } \subseteq NodeIds(networkData'.nodes)

C14_NoDeviceForSkippedRow ==
    [][hist'.op = "import" => SkippedRowCreatesNoDeviceA]_vars

C14_RemainingRowsProcessed ==
    [][hist'.op = "import" => RemainingRowsProcessed]_vars

(* C14: an import row whose device-A name is empty is skipped and creates no device
   A, while device B of the same row is still created when its own address and name
   are present; processing continues with the remaining rows. *)
C14_SkippedRowStillCreatesB ==
    [][hist'.op = "import" =>
          /\ SkippedRowCreatesNoDeviceA
          /\ DeviceBOfSkippedRowCreated
          /\ RemainingRowsProcessed]_vars

---------------------------------------------------------------------------
(* The group of a device: determineParentBlock and determineBlock          *)

\* !s || !s.trim()
IsBlank(s) == s = << >> \/ Trim(s) = << >>

\* The group determineBlock finds from the host name in capitals and the type in
\* small letters; the empty string stands for null.
BlockOfHostname(name, deviceType) ==
    IF Includes(name, << 67, 79, 82 >>) \/ Includes(name, << 67, 79, 82, 69 >>)
    THEN CoreBlock
    ELSE IF Includes(name, << 73, 78, 84 >>) \/ Includes(name, << 73, 78, 84, 69, 82, 78, 69, 84 >>)
    THEN InternetBlock
    ELSE IF Includes(name, << 79, 79, 66 >>) \/ Includes(name, << 79, 85, 84, 95, 79, 70, 95, 66, 65, 78, 68 >>)
    THEN OobBlock
    ELSE IF Includes(name, << 87, 65, 78 >>) \/ Includes(name, << 87, 73, 68, 69, 95, 65, 82, 69, 65 >>)
    THEN WanBlock
    ELSE IF Includes(name, << 69, 88, 84, 78, 69, 84 >>) \/ Includes(name, << 69, 88, 84, 82, 65, 78, 69, 84 >>) \/ Includes(name, << 80, 65, 82, 84, 78, 69, 82 >>)
    THEN ExtranetBlock
    ELSE IF Includes(name, << 79, 84, 86 >>) \/ Includes(name, << 82, 69, 80, 76 >>) \/ Includes(name, << 82, 69, 80, 76, 73, 67, 65, 84, 73, 79, 78 >>)
    THEN ReplicationBlock
    ELSE IF Includes(name, << 68, 67 >>) \/ Includes(name, << 68, 65, 84, 65, 67, 69, 78, 84, 69, 82 >>) \/ Includes(name, << 65, 67, 73 >>)
    THEN DatacenterBlock
    ELSE IF Includes(name, << 86, 73, 83 >>) \/ Includes(name, << 86, 73, 83, 73, 66, 73, 76, 73, 84, 89 >>) \/ Includes(name, << 77, 79, 78, 73, 84, 79, 82 >>)
    THEN VisibilityBlock
    ELSE IF Includes(name, << 68, 77, 90 >>) \/ Includes(name, << 80, 69, 82, 73, 77, 69, 84, 69, 82 >>) \/ Includes(name, << 66, 79, 82, 68, 69, 82 >>)
    THEN DmzBlock
    ELSE IF Includes(name, << 69, 88, 84 >>) \/ Includes(name, << 69, 88, 84, 69, 82, 78, 65, 76 >>) \/ Includes(name, << 69, 68, 71, 69 >>)
    THEN ExternalBlock
    ELSE IF deviceType = << 102, 105, 114, 101, 119, 97, 108, 108 >> THEN DmzBlock   \* 'firewall'
    ELSE IF deviceType = << 105, 112, 115 >> THEN VisibilityBlock   \* 'ips'
    ELSE IF deviceType = << 112, 114, 111, 120, 121 >> THEN DmzBlock   \* 'proxy'
    ELSE << >>

determineBlock(hostname, ip, deviceType) ==
    IF IsBlank(hostname) \/ IsBlank(ip) \/ IsBlank(deviceType) THEN << >>
    ELSE IF ip = CoreIPa \/ ip = CoreIPb THEN CoreBlock
    ELSE IF ToLowerCase(deviceType) = TCoreSwitch THEN CoreBlock
    ELSE IF ToLowerCase(deviceType) = TIsp THEN << >>
    ELSE BlockOfHostname(ToUpperCase(hostname), ToLowerCase(deviceType))

NameDmz == << 68, 77, 90, 45, 70, 87 >>   \* "DMZ-FW"

BlockNames == { << >>, << SP >>, NameFw, NameSw, NameDmz }
BlockAddresses == { CoreIPa, CoreIPb, IP1 }
BlockTypes == { << >>, TFirewall, TCoreSwitch, TIsp }

InitBlock ==
    /\ Idle
    /\ fnIn \in [name : BlockNames, ip : BlockAddresses, type : BlockTypes]
    /\ fnOut = NoResult

\* The name is read by determineParentBlock only when neither the address nor the
\* type has decided (name.toUpperCase() of the source).
CallDetermineBlock ==
    /\ fnOut = NoResult
    /\ fnOut' = [done |-> TRUE,
                 parentBlock |-> determineParentBlock(fnIn.name, fnIn.ip, fnIn.type),
                 block |-> determineBlock(fnIn.name, fnIn.ip, fnIn.type)]
    /\ UNCHANGED << canonical, cy, flags, requests, fnIn, grabbed, userMoved, hist >>

NextBlock == CallDetermineBlock

SpecBlock == InitBlock /\ [][NextBlock]_vars

\* determineParentBlock puts 10.99.18.253 in the core group.
C15_ParentBlockIsCore ==
    fnOut.done /\ fnIn.ip = CoreIPa => fnOut.parentBlock = CoreBlock

(* C15: a device whose address is 10.99.18.253 is assigned to the built-in core
   group by every group-assignment function, determineParentBlock and
   determineBlock, whatever its name and declared type, including when the name or
   the type is blank. *)
C15_CoreAddressAlwaysCore ==
    fnOut.done /\ fnIn.ip = CoreIPa =>
        /\ fnOut.parentBlock = CoreBlock
        /\ fnOut.block = CoreBlock

---------------------------------------------------------------------------
(* clearData                                                               *)

\* clearData() of TopologyComponent: the groups of networkData are kept, the stored
\* positions are not touched, clearLocalStorage() does nothing, and
\* reinitializeNetwork() sets a timer for ngAfterViewInit.
ClearData ==
    /\ component = "edit"
    /\ pendingInit < MaxPendingInit
    /\ networkData' = [blocks |-> networkData.blocks, nodes |-> << >>, edges |-> << >>]
    /\ connectionMap' = EmptyMap
    /\ deviceStatusMap' = EmptyMap
    /\ deviceTypeMap' = EmptyMap
    /\ pendingInit' = pendingInit + 1
    /\ hist' = [op |-> "clearData"]
    /\ UNCHANGED << savedPositions, cy, flags, inflight, component, fnIn, fnOut, grabbed,
                    userMoved >>

\* clearData() of the view: the tables are emptied and the instance, when there is
\* one, is filled again from the empty tables (updateCytoscapeWithNewData).
ViewClearData ==
    /\ component = "view"
    /\ networkData' = [blocks |-> << >>, nodes |-> << >>, edges |-> << >>]
    /\ deviceStatusMap' = EmptyMap
    /\ savedPositions' = EmptyMap
    /\ connectionMap' = EmptyMap
    /\ cy' = IF cy.present THEN [cy EXCEPT !.nodes = EmptyMap, !.edges = << >>] ELSE cy
    /\ userMoved' = { }
    /\ hist' = [op |-> "clearData"]
    /\ UNCHANGED << deviceTypeMap, flags, requests, fnIn, fnOut, grabbed >>

NextClear ==
    \/ NgAfterViewInit
    \/ \E req \in inflight, response \in Responses, rnd \in RndChoices :
           AnswerLoad(req, response, rnd)
    \/ ClearData
    \/ ViewNgAfterViewInit
    \/ \E req \in inflight, response \in Responses : ViewAnswerLoad(req, response)
    \/ ViewClearData

SpecClear == InitLoad /\ [][NextClear]_vars

\* clearData leaves no device, no link, no status, no type and no connection record.
C16_ClearEmptiesDevicesAndLinks ==
    [][hist'.op = "clearData" =>
          /\ networkData'.nodes = << >>
          /\ networkData'.edges = << >>
          /\ deviceStatusMap' = EmptyMap
          /\ deviceTypeMap' = EmptyMap
          /\ connectionMap' = EmptyMap]_vars

(* C16: after clearData every table of the canonical state is empty: no devices, no
   links, no groups, no stored positions, no statuses, no types and no connection
   records remain, whatever the state was before. *)
C16_ClearEmptiesEveryTable ==
    [][hist'.op = "clearData" =>
          /\ networkData'.nodes = << >>
          /\ networkData'.edges = << >>
          /\ networkData'.blocks = << >>
          /\ savedPositions' = EmptyMap
          /\ deviceStatusMap' = EmptyMap
          /\ deviceTypeMap' = EmptyMap
          /\ connectionMap' = EmptyMap]_vars

---------------------------------------------------------------------------
(* Devices of the canonical list from one step to the next                 *)

\* Every device of the canonical device list is still in it after the step.
DevicesKept == NodeIds(networkData.nodes) \subseteq NodeIds(networkData'.nodes)

\* Imports and drags remove no device.
C17_ImportsAndDragsKeepDevices ==
    [][hist'.op \in { "import", "dragstart", "drag", "dragfree", "dragcancel" }
          => DevicesKept]_vars

(* C17: a device, once in the canonical device list (created by an import row or a
   backend snapshot), stays in it through any later sequence of imports, backend
   reconciliations and drags; only the explicit clear operation removes it. *)
C17_DevicesPersist ==
    [][hist'.op # "clearData" => DevicesKept]_vars

---------------------------------------------------------------------------
(* What an import does to the devices that were there before               *)

\* The entry of a table, the empty string when there is none.
Lookup(m, id) == IF Has(m, id) THEN m[id] ELSE << >>

\* What a row that is read says of the status and of the type of its device id.
RowNames(row, id) == RowIsRead(row) /\ id \in { row.DeviceAIP, row.DeviceBIP }
RowStatus(row) == IF parseSpeed(row.INSpeed) > 0 THEN On ELSE Off
RowType(row, id) ==
    getDeviceType(IF id = row.DeviceAIP THEN row.DeviceAName ELSE row.DevicebName, id)

\* The devices of the list before the step are its first devices afterwards, each
\* with its identity, label and parent group.
DevicesNotReplaced ==
    /\ Len(networkData'.nodes) >= Len(networkData.nodes)
    /\ \A i \in 1..Len(networkData.nodes) :
           /\ networkData'.nodes[i].id = networkData.nodes[i].id
           /\ networkData'.nodes[i].label = networkData.nodes[i].label
           /\ networkData'.nodes[i].parent = networkData.nodes[i].parent

\* A status or a type that changed is one a row of the file gave, other than the old.
ChangesComeFromRows ==
    \A id \in NodeIds(networkData.nodes) :
        /\ Lookup(deviceStatusMap', id) # Lookup(deviceStatusMap, id) =>
               \E row \in ImportedRows :
                   /\ RowNames(row, id)
                   /\ RowStatus(row) = Lookup(deviceStatusMap', id)
        /\ Lookup(deviceTypeMap', id) # Lookup(deviceTypeMap, id) =>
               \E row \in ImportedRows :
                   /\ RowNames(row, id)
                   /\ RowType(row, id) = Lookup(deviceTypeMap', id)

(* C18: a spreadsheet import is accretive: insertVulnerabilityScan never removes or
   replaces a device already in the canonical device list; every device present
   before the import is present after it with the same identity, label and parent
   group, and only its status or type may change, and only when a row gives a
   different value for it. *)
C18_ImportIsAccretive ==
    [][hist'.op = "import" => DevicesNotReplaced /\ ChangesComeFromRows]_vars

\* A file whose one row calls 10.0.0.1 by a router's name was imported into a
\* topology that had the device as fw1: the label is the old one, the type is router.
C18_Witness ==
    /\ hist.op = "import"
    /\ hist.fileData = << RowRenamed >>
    /\ ~hist.full
    /\ Len(networkData.nodes) = 2
    /\ networkData.nodes[1].id = IP1
    /\ networkData.nodes[1].label = NameFw \o << ChNewline >> \o IP1
    /\ Lookup(deviceTypeMap, IP1) = TRouter

---------------------------------------------------------------------------
(* The element lists and what the rendering engine makes of them           *)

\* Data as the backend may report it: groups, devices whose id or parent may carry
\* blanks, a device placed under another device, and links to a device that the
\* snapshot does not list.
PaddedCoreBlock == << SP >> \o CoreBlock
BlankId == << SP, SP >>

ElementBlocks ==
    { << >>, << [id |-> CoreBlock, label |-> CoreBlock] >>,
      << [id |-> CoreBlock, label |-> CoreBlock], [id |-> DmzBlock, label |-> DmzBlock] >> }

ElementNodes ==
    { << >> }
    \cup { << [id |-> id, parent |-> p] >> :
             id \in { IP1, BlankId }, p \in { << >>, CoreBlock, PaddedCoreBlock } }
    \cup { << [id |-> IP1, parent |-> p], [id |-> IP2, parent |-> q] >> :
             p \in { << >>, CoreBlock }, q \in { << >>, CoreBlock, IP1 } }

ElementEdges ==
    { << >>, << [source |-> IP1, target |-> IP2] >>,
      << [source |-> IP2, target |-> BlankId] >> }

ElementInputs == [blocks : ElementBlocks, nodes : ElementNodes, edges : ElementEdges]

\* The elements of the groups: the loop over networkData.blocks, in both components.
BlockElements(nd) ==
    LET hasChildren(block) ==
            \E i \in 1..Len(nd.nodes) : Trim(nd.nodes[i].parent) = block.id
        blocks == SelectSeq(nd.blocks, hasChildren)
    IN  [i \in 1..Len(blocks) |-> [id |-> blocks[i].id]]

\* The elements of the devices: the loop over networkData.nodes, in both components.
\* The id is trimmed; the parent is copied as it is when it is not blank.
NodeElements(nd) ==
    LET nodes == SelectSeq(nd.nodes, LAMBDA n : Trim(n.id) # << >>)
    IN  [i \in 1..Len(nodes) |->
            [id |-> Trim(nodes[i].id),
             parent |-> IF Trim(nodes[i].parent) # << >> THEN nodes[i].parent
                        ELSE << >>]]

ElementIds(seq) == { seq[i].id : i \in 1..Len(seq) }

\* The list convertToCytoscapeElements() of TopologyComponent returns.
convertToCytoscapeElementsList(nd) ==
    LET nodes == NodeElements(nd)
        validNodeIds == ElementIds(nodes)
        edges == SelectSeq(nd.edges, LAMBDA e :
                     /\ Trim(e.source) # << >> /\ Trim(e.target) # << >>
                     /\ Trim(e.source) \in validNodeIds
                     /\ Trim(e.target) \in validNodeIds)
    IN  [blocks |-> BlockElements(nd), nodes |-> nodes,
         edges |-> [i \in 1..Len(edges) |->
                      [source |-> Trim(edges[i].source),
                       target |-> Trim(edges[i].target)]]]

\* The list convertToCytoscapeElements() of the view returns.
viewConvertToCytoscapeElementsList(nd) ==
    LET edges == SelectSeq(nd.edges, LAMBDA e :
                     Trim(e.source) # << >> /\ Trim(e.target) # << >>)
    IN  [blocks |-> BlockElements(nd), nodes |-> NodeElements(nd),
         edges |-> [i \in 1..Len(edges) |->
                      [source |-> Trim(edges[i].source),
                       target |-> Trim(edges[i].target)]]]

\* What the engine holds once it is given a list: a parent that is not an element is
\* dropped from the node, an edge with an endpoint that is not an element is refused.
cytoscapeOf(elements) ==
    LET ids == ElementIds(elements.blocks) \cup ElementIds(elements.nodes)
        deviceOf(id) ==
            elements.nodes[CHOOSE i \in 1..Len(elements.nodes) :
                               elements.nodes[i].id = id]
    IN  [nodes |-> [id \in ids |->
                      IF id \in ElementIds(elements.blocks)
                      THEN [parent |-> << >>, group |-> TRUE]
                      ELSE [parent |-> IF deviceOf(id).parent \in ids
                                       THEN deviceOf(id).parent ELSE << >>,
                            group |-> FALSE]],
         edges |-> SelectSeq(elements.edges, LAMBDA e :
                       e.source \in ids /\ e.target \in ids)]

RECURSIVE Descendants(_, _)
Descendants(cyv, S) ==
    LET below == UNION { Children(cyv, id) : id \in S }
    IN  IF below \subseteq S THEN S ELSE Descendants(cyv, S \cup below)

\* The first loop of ensureBlocksArePositioned(cy), in both components: of the nodes
\* that have children (the selector ':parent'), those none of whose children is a
\* plain node are removed, and the engine removes their descendants with them.
ensureBlocksArePositioned(cyv) ==
    LET empty == { b \in DOMAIN cyv.nodes :
                     /\ IsParent(cyv, b)
                     /\ \A n \in Children(cyv, b) : IsParent(cyv, n) }
        removed == Descendants(cyv, empty)
        kept == (DOMAIN cyv.nodes) \ removed
    IN  [nodes |-> [id \in kept |-> cyv.nodes[id]],
         edges |-> SelectSeq(cyv.edges, LAMBDA e :
                       e.source \in kept /\ e.target \in kept)]

InitElements ==
    /\ Idle
    /\ fnIn \in ElementInputs
    /\ fnOut = NoResult

CallConvertToCytoscapeElements ==
    /\ fnOut = NoResult
    /\ fnOut' = [done |-> TRUE, op |-> "convert",
                 edit |-> convertToCytoscapeElementsList(fnIn),
                 view |-> viewConvertToCytoscapeElementsList(fnIn)]
    /\ UNCHANGED << canonical, cy, flags, requests, fnIn, grabbed, userMoved, hist >>

CallEnsureBlocksArePositioned ==
    /\ fnOut.done /\ fnOut.op = "convert"
    /\ fnOut' = [done |-> TRUE, op |-> "ensure",
                 edit |-> ensureBlocksArePositioned(cytoscapeOf(fnOut.edit)),
                 view |-> ensureBlocksArePositioned(cytoscapeOf(fnOut.view))]
    /\ UNCHANGED << canonical, cy, flags, requests, fnIn, grabbed, userMoved, hist >>

NextElements == CallConvertToCytoscapeElements \/ CallEnsureBlocksArePositioned

SpecElements == InitElements /\ [][NextElements]_vars

EdgesAmongDevices(elements) ==
    \A i \in 1..Len(elements.edges) :
        /\ elements.edges[i].source \in ElementIds(elements.nodes)
        /\ elements.edges[i].target \in ElementIds(elements.nodes)

\* The list of TopologyComponent holds no link to a device that is not in the list.
C19_EditListLinksKnownDevices ==
    (fnOut.done /\ fnOut.op = "convert") => EdgesAmongDevices(fnOut.edit)

\* What addIncrementalElements and the construction leave in the engine: every
\* rendered link of the session joins two rendered nodes.
C19_RenderedLinksJoinRenderedNodes ==
    cy # NoCy =>
        \A i \in 1..Len(cy.edges) :
            Has(cy.nodes, cy.edges[i].source) /\ Has(cy.nodes, cy.edges[i].target)

\* C19: no link whose source or target is not a known device is handed to the
\* rendering engine: every edge of a list built by convertToCytoscapeElements, of
\* TopologyComponent and of the view, has both endpoints among the devices of that
\* list.
C19_ListLinksKnownDevices ==
    (fnOut.done /\ fnOut.op = "convert") =>
        EdgesAmongDevices(fnOut.edit) /\ EdgesAmongDevices(fnOut.view)

NamedAsParent(nd, id) == \E i \in 1..Len(nd.nodes) : Trim(nd.nodes[i].parent) = id

EmitsOnlyNamedGroups(nd, elements) ==
    \A i \in 1..Len(elements.blocks) : NamedAsParent(nd, elements.blocks[i].id)

HoldsNoEmptyGroup(cyv) ==
    \A b \in DOMAIN cyv.nodes :
        cyv.nodes[b].group => \E n \in Children(cyv, b) : ~cyv.nodes[n].group

\* Neither list holds an element for a group that no device of the data names as its
\* parent.
C20_ListsHoldOnlyNamedGroups ==
    (fnOut.done /\ fnOut.op = "convert") =>
        /\ EmitsOnlyNamedGroups(fnIn, fnOut.edit)
        /\ EmitsOnlyNamedGroups(fnIn, fnOut.view)

\* C20: a group with no child device is never rendered: convertToCytoscapeElements
\* emits no element for a group none of whose devices names it as parent, and after
\* ensureBlocksArePositioned the rendering engine holds no group with zero child
\* devices.
C20_NoEmptyGroupRendered ==
    /\ C20_ListsHoldOnlyNamedGroups
    /\ (fnOut.done /\ fnOut.op = "ensure") =>
           HoldsNoEmptyGroup(fnOut.edit) /\ HoldsNoEmptyGroup(fnOut.view)

---------------------------------------------------------------------------
(* saveAllPositions on its own                                             *)

\* Positions the store may hold: a placed one, one on an axis, the origin, and ones
\* with a coordinate that is not a finite number.
StoredPositions ==
    { [x |-> Num(120), y |-> Num(45)], [x |-> Num(0), y |-> Num(-30)],
      [x |-> Num(0), y |-> Num(0)], [x |-> NaN, y |-> Num(45)],
      [x |-> Num(120), y |-> Infinity] }

StoreKeys == { IP1, IP2, CoreBlock }

\* The stores: every key is absent or holds one of the positions.
Stores ==
    UNION { [keys -> StoredPositions] : keys \in SUBSET StoreKeys }

\* saveAllPositions(): the object handed to saveDevicePositions, or nothing.
saveAllPositions(store) ==
    IF DOMAIN store = { } THEN [submitted |-> FALSE]
    ELSE LET valid == { key \in DOMAIN store : isValidPositionOf(store[key]) }
             positionsObj == [key \in valid |-> store[key]]
         IN  IF Cardinality(valid) = 0 THEN [submitted |-> FALSE]
             ELSE [submitted |-> TRUE, positionsObj |-> positionsObj]

InitSave ==
    /\ Idle
    /\ fnIn \in Stores
    /\ fnOut = NoResult

CallSaveAllPositions ==
    /\ fnOut = NoResult
    /\ fnOut' = [done |-> TRUE, request |-> saveAllPositions(fnIn)]
    /\ UNCHANGED << canonical, cy, flags, requests, fnIn, grabbed, userMoved, hist >>

NextSave == CallSaveAllPositions

SpecSave == InitSave /\ [][NextSave]_vars

\* The position is not the origin and both its coordinates are finite numbers.
PassesValidity(position) ==
    /\ ~(position.x = Num(0) /\ position.y = Num(0))
    /\ FiniteNumber(position.x)
    /\ FiniteNumber(position.y)

(* C21: saveAllPositions submits to the backend only entries of the position store
   that pass the validity check: no (0,0), NaN or infinite position is in the
   submitted map, every submitted entry is the stored one, every valid entry is
   submitted, and when no stored position is valid nothing is submitted. *)
C21_OnlyValidPositionsSubmitted ==
    fnOut.done =>
        LET valid == { key \in DOMAIN fnIn : PassesValidity(fnIn[key]) }
        IN  /\ fnOut.request.submitted <=> valid # { }
            /\ fnOut.request.submitted =>
                   /\ DOMAIN fnOut.request.positionsObj = valid
                   /\ \A key \in valid : fnOut.request.positionsObj[key] = fnIn[key]

\* A store with a valid entry, an origin entry and an infinite entry was saved: only
\* the valid entry was submitted.
C21_Witness ==
    /\ fnOut.done
    /\ fnIn = (IP1 :> [x |-> Num(120), y |-> Num(45)]
               @@ IP2 :> [x |-> Num(0), y |-> Num(0)]
               @@ CoreBlock :> [x |-> Num(120), y |-> Infinity])
    /\ fnOut.request.submitted
    /\ DOMAIN fnOut.request.positionsObj = { IP1 }

---------------------------------------------------------------------------
(* createConnectionId on two rows between the same two devices             *)

\* Interfaces as two rows may write them: none, blanks only, and names that differ in
\* case, in surrounding spaces, or in the name itself.
RowInterfaces ==
    { << >>, << SP >>, << 97 >>, << 65 >>, << SP, 97 >>, << 65, SP >>,
      << 98 >>, << 66 >>, << 98, SP >> }

\* The string holds nothing but spaces.
OnlySpaces(s) == \A i \in 1..Len(s) : s[i] = SP

\* One letter or other character, without regard to case.
FoldCase(ch) == IF ch \in 97..122 THEN ch - 32 ELSE ch

\* The two strings are the same once the spaces around them and the case of their
\* letters are disregarded.
SameButCaseAndSpaces(s, t) ==
    \E i \in 1..(Len(s) + 1), j \in 0..Len(s), k \in 1..(Len(t) + 1), l \in 0..Len(t) :
        /\ j - i = l - k
        /\ j - i >= -1
        /\ \A n \in 1..Len(s) : (n < i \/ n > j) => s[n] = SP
        /\ \A n \in 1..Len(t) : (n < k \/ n > l) => t[n] = SP
        /\ \A n \in 0..(j - i) : FoldCase(s[i + n]) = FoldCase(t[k + n])

InitRowIds ==
    /\ Idle
    /\ fnIn \in [ia : RowInterfaces, ib : RowInterfaces,
                 i1 : RowInterfaces, i2 : RowInterfaces, reversed : BOOLEAN]
    /\ fnOut = NoResult

\* The identities of two rows between 10.0.0.1 and 10.0.0.2; the second row may name
\* the devices in the other order.
CallCreateConnectionIdOfRows ==
    /\ fnOut = NoResult
    /\ fnOut' = [done |-> TRUE,
                 first |-> createConnectionId(IP1, fnIn.ia, IP2, fnIn.ib),
                 second |-> IF fnIn.reversed
                            THEN createConnectionId(IP2, fnIn.i1, IP1, fnIn.i2)
                            ELSE createConnectionId(IP1, fnIn.i1, IP2, fnIn.i2)]
    /\ UNCHANGED << canonical, cy, flags, requests, fnIn, grabbed, userMoved, hist >>

NextRowIds == CallCreateConnectionIdOfRows

SpecRowIds == InitRowIds /\ [][NextRowIds]_vars

\* The row lacks interface information: one of its interfaces is blank.
LacksInterface(ia, ib) == OnlySpaces(ia) \/ OnlySpaces(ib)

(* C22: if either interface is blank (empty or only spaces), createConnectionId
   depends only on the unordered pair of device addresses and ignores the other
   interface, so any two rows between the same two devices that lack interface
   information get the same identity; interfaces differing only in case or
   surrounding spaces give the same identity. *)
C22_BlankInterfaceFallsBackToDevicePair ==
    fnOut.done =>
        /\ LacksInterface(fnIn.ia, fnIn.ib) =>
               fnOut.first = IP1 \o << ChBar >> \o IP2
        /\ LacksInterface(fnIn.ia, fnIn.ib) /\ LacksInterface(fnIn.i1, fnIn.i2) =>
               fnOut.first = fnOut.second
        /\ /\ ~fnIn.reversed
           /\ SameButCaseAndSpaces(fnIn.ia, fnIn.i1)
           /\ SameButCaseAndSpaces(fnIn.ib, fnIn.i2)
           => fnOut.first = fnOut.second
        /\ /\ fnIn.reversed
           /\ SameButCaseAndSpaces(fnIn.ia, fnIn.i2)
           /\ SameButCaseAndSpaces(fnIn.ib, fnIn.i1)
           => fnOut.first = fnOut.second

\* A row with interface "a" on one end only and the reverse row with interface "b" on
\* one end only got the identity of the device pair.
C22_Witness ==
    /\ fnOut.done
    /\ fnIn = [ia |-> << 97 >>, ib |-> << SP >>, i1 |-> << >>, i2 |-> << 98 >>,
               reversed |-> TRUE]
    /\ fnOut.first = IP1 \o << ChBar >> \o IP2
    /\ fnOut.second = fnOut.first

\* Rows that write the same interfaces as "a" / "A " and " a" / "A" got one identity,
\* which names the interfaces.
C22_CaseAndSpacesReached ==
    /\ fnOut.done
    /\ fnIn = [ia |-> << 97 >>, ib |-> << 65, SP >>, i1 |-> << SP, 97 >>,
               i2 |-> << 65 >>, reversed |-> FALSE]
    /\ fnOut.first = fnOut.second
    /\ fnOut.first # IP1 \o << ChBar >> \o IP2

---------------------------------------------------------------------------
(* Where the position updates of a change-set put the rendered nodes        *)

\* The user left the node where the store says and the snapshot reports a valid
\* position further away than the tolerance: the stored position is kept as
\* user-modified.
KeptAsUserModified(id) ==
    /\ id \in userMoved
    /\ cy.present /\ Has(cy.nodes, id)
    /\ isValidPosition(savedPositions[id])
    /\ cy.nodes[id].position = savedPositions[id]
    /\ BeyondTolerance(id, hist'.snapshot.positions)
    /\ isValidPosition(hist'.snapshot.positions[id])

\* A rendered node at a valid position is at another position after the step only if
\* the change-set has a position update for it.
C23_MovedOnlyByPositionUpdate ==
    [][ReconciledUndragged =>
           \A id \in DOMAIN cy.nodes :
               ( /\ Has(cy'.nodes, id)
                 /\ cy'.nodes[id].position # cy.nodes[id].position
                 /\ isValidPosition(cy.nodes[id].position) ) =>
                   \E i \in 1..Len(hist'.changes.positionUpdates) :
                       hist'.changes.positionUpdates[i].nodeId = id]_vars

(* C23: while applying a change-set, applyIncrementalChanges moves a rendered element
   to a backend-supplied position only if that identity passed the precedence check:
   an element whose local position was kept as user-modified, differing from the
   backend value by more than 5 px, is not moved to the backend coordinates, so after
   the reconciliation its rendered position agrees with its stored position. *)
C23_KeptElementNotMoved ==
    [][ReconciledUndragged =>
           \A id \in DOMAIN savedPositions :
               KeptAsUserModified(id) =>
                   /\ cy'.nodes[id].position # hist'.snapshot.positions[id]
                   /\ cy'.nodes[id].position = savedPositions'[id]]_vars

---------------------------------------------------------------------------
(* The in-progress flags once the loads have ended                         *)

\* The flag the load just answered had set is clear again.
FlagOfAnsweredLoadClear ==
    IF hist'.silent THEN ~isSilentRefreshing' ELSE ~isLoadingData'

\* A load that the backend answers, with or without success, clears the flag it set.
C24_AnsweredLoadClearsFlag ==
    [][(hist'.op = "answer" /\ hist'.outcome # "error") => FlagOfAnsweredLoadClear]_vars

(* C24: every load started by loadNetworkData or refreshNetworkDataIncrementally
   clears the in-progress flag it set, isLoadingData or isSilentRefreshing, whether
   the backend call succeeds, returns a response without success, or errors: once no
   load is outstanding neither flag is set, so a refreshFromBackend issued then is not
   rejected as already in progress. *)
C24_EndedLoadsLeaveNoFlag ==
    inflight = { } => ~isLoadingData /\ ~isSilentRefreshing

---------------------------------------------------------------------------
(* Devices that first appear while the user drags                          *)

\* Every device of the canonical device list is rendered.
EveryDeviceRendered(nd, cyv) ==
    \A i \in 1..Len(nd.nodes) : Has(cyv.nodes, Trim(nd.nodes[i].id))

\* With the user leaving the view alone, every reconciliation leaves every device of
\* the canonical device list rendered.
C25_UndisturbedReconciliationRendersAll ==
    [][hist'.op = "reconcile" => EveryDeviceRendered(networkData', cy')]_vars

(* C25: a device or link that first appears in a snapshot reconciled while a drag is
   in progress is not lost to the display: once the drag has ended, the next
   reconciliation of a snapshot that still contains it adds it to the rendering
   engine, so after a reconciliation with no drag in progress every device of the
   canonical device list is rendered. *)
C25_DevicesOfDragTimeSnapshotsRendered ==
    [][ReconciledUndragged => EveryDeviceRendered(networkData', cy')]_vars

---------------------------------------------------------------------------
(* A snapshot that arrives before the rendering instance exists            *)

\* The step just taken handed a snapshot to compareAndUpdateNetworkData of
\* TopologyComponent while the container held no rendering instance.
ReconciledWithoutInstance ==
    /\ component = "edit"
    /\ hist'.op = "answer" /\ hist'.outcome = "data"
    /\ ~cy.present

\* The load compareAndUpdateNetworkData falls back to is outstanding.
FallbackLoadStarted ==
    \E req \in inflight' : req.kind = "load" /\ ~req.silent

\* Nothing is patched: the lists, the position store and the maps stay as they were.
C26_NothingPatchedWithoutInstance ==
    [][ReconciledWithoutInstance => UNCHANGED << canonical, cy >>]_vars

\* The fallback is started when isLoadingData is not set as the snapshot arrives.
C26_FallbackStartedWhenNotLoading ==
    [][(ReconciledWithoutInstance /\ ~isLoadingData) => FallbackLoadStarted]_vars

(* C26: when compareAndUpdateNetworkData runs while no rendering-engine instance
   exists, it patches nothing incrementally (device and link lists, position store,
   status, type and connection maps stay unchanged) and falls back to the full load,
   which is actually started and not suppressed by the in-progress guard of the load
   that delivered the snapshot. *)
C26_FallbackWithoutInstance ==
    [][ReconciledWithoutInstance =>
           /\ UNCHANGED << canonical, cy >>
           /\ FallbackLoadStarted]_vars

---------------------------------------------------------------------------
(* Status and type updates of a change-set                                 *)

\* What the snapshot says of the device: the field of its entry in the device list
\* and the entry of the snapshot's table.
SnapshotValues(snapshot, id, field, table) ==
    { snapshot.networkData.nodes[i][field] :
        i \in { j \in 1..Len(snapshot.networkData.nodes) :
                  snapshot.networkData.nodes[j].id = id } }
    \cup (IF Has(table, id) THEN { table[id] } ELSE { })

\* Every status update carries a value of the snapshot that is not the recorded one.
StatusUpdatesAreChanges ==
    \A i \in 1..Len(hist'.changes.statusUpdates) :
        LET update == hist'.changes.statusUpdates[i]
        IN  /\ update.status # Lookup(deviceStatusMap, update.deviceId)
            /\ update.status \in SnapshotValues(hist'.snapshot, update.deviceId, "status",
                                                hist'.snapshot.deviceStatus)

\* Every type update carries a value of the snapshot that is not the recorded one.
TypeUpdatesAreChanges ==
    \A i \in 1..Len(hist'.changes.typeUpdates) :
        LET update == hist'.changes.typeUpdates[i]
        IN  /\ update.type # Lookup(deviceTypeMap, update.deviceId)
            /\ update.type \in SnapshotValues(hist'.snapshot, update.deviceId, "type",
                                              hist'.snapshot.deviceTypes)

(* C27: the reconciler puts a status update or a type update for a device into the
   change-set only when the snapshot's value for that device differs from the value
   currently recorded in the local status or type map; a device whose snapshot value
   equals the recorded value yields no update, even though the field is present. *)
C27_UpdatesOnlyOnChange ==
    [][hist'.op = "reconcile" => StatusUpdatesAreChanges /\ TypeUpdatesAreChanges]_vars

\* A snapshot whose devices carry a status and a type was reconciled a second time
\* and the change-set has no status and no type update.
C27_Witness ==
    /\ hist.op = "reconcile" /\ hist.again
    /\ Len(hist.snapshot.networkData.nodes) = 2
    /\ \A i \in 1..2 : /\ hist.snapshot.networkData.nodes[i].status # << >>
                       /\ hist.snapshot.networkData.nodes[i].type # << >>
    /\ hist.changes.statusUpdates = << >>
    /\ hist.changes.typeUpdates = << >>

\* The updates an import collects for the devices it already knows: each carries a
\* status or a type other than the recorded one.
C27_ImportUpdatesOnlyOnChange ==
    [][hist'.op = "import" =>
           LET deviceUpdates == ReadRows(ImportStart(Tables), hist'.fileData).deviceUpdates
           IN  \A i \in 1..Len(deviceUpdates) :
                   /\ deviceUpdates[i].status # << >> \/ deviceUpdates[i].type # << >>
                   /\ deviceUpdates[i].status # << >> =>
                          deviceUpdates[i].status
                              # Lookup(deviceStatusMap, deviceUpdates[i].id)
                   /\ deviceUpdates[i].type # << >> =>
                          deviceUpdates[i].type
                              # Lookup(deviceTypeMap, deviceUpdates[i].id)]_vars

---------------------------------------------------------------------------
(* The links a change-set reports as new                                   *)

\* The links between 10.0.0.1 and 10.0.0.2 a device list may hold: the link on
\* eth0/eth1 from either end, and the link on the interfaces the other way round.
ComparedLinks ==
    { LinkOf(IP1, Eth0, IP2, Eth1, 5, 5, 10).edges[1],
      LinkOf(IP2, Eth1, IP1, Eth0, 5, 5, 10).edges[1],
      LinkOf(IP1, Eth1, IP2, Eth0, 5, 5, 10).edges[1],
      LinkOf(IP2, Eth0, IP1, Eth1, 5, 5, 10).edges[1] }

MaxLinks == 2          \* most links of a device list that is diffed

LinkLists == SeqsUpTo(ComparedLinks, MaxLinks)

InitEdges ==
    /\ Idle
    /\ fnIn \in [local : LinkLists, backend : LinkLists]
    /\ fnOut = NoResult

\* compareEdges of a snapshot's links against this.networkData.edges
CallCompareEdges ==
    /\ fnOut = NoResult
    /\ fnOut' = [done |-> TRUE,
                 newEdges |-> compareEdges([nd |-> [edges |-> fnIn.local]],
                                           fnIn.backend, EmptyChanges).newEdges]
    /\ UNCHANGED << canonical, cy, flags, requests, fnIn, grabbed, userMoved, hist >>

NextEdges == CallCompareEdges

SpecEdges == InitEdges /\ [][NextEdges]_vars

\* The canonical identity of a link of a device list.
IdentityOfLink(e) ==
    createConnectionId(e.source, e.metadata.interface_a, e.target, e.metadata.interface_b)

\* No link reported as new names the endpoints of a locally known link in the same
\* order, and every backend link that does not is reported.
C28_NewLinksDifferInEndpointOrder ==
    fnOut.done =>
        \A i \in 1..Len(fnIn.backend) :
            (\E k \in 1..Len(fnOut.newEdges) : fnOut.newEdges[k] = fnIn.backend[i])
            <=> ~\E j \in 1..Len(fnIn.local) :
                     /\ fnIn.backend[i].source = fnIn.local[j].source
                     /\ fnIn.backend[i].target = fnIn.local[j].target

(* C28: the reconciler diffs links by the order-independent canonical identity of the
   connection registry: a backend link is reported as new only if no locally known
   link has the same canonical identity, so a backend link whose endpoints are listed
   in the opposite order to a locally known link is not reported as a new link. *)
C28_NewLinksHaveNewIdentity ==
    fnOut.done =>
        \A i \in 1..Len(fnOut.newEdges), j \in 1..Len(fnIn.local) :
            IdentityOfLink(fnOut.newEdges[i]) # IdentityOfLink(fnIn.local[j])

---------------------------------------------------------------------------
(* The position updates of a change-set                                    *)

\* The change-set of the step has a position update for the identity.
HasPositionUpdate(id) ==
    \E i \in 1..Len(hist'.changes.positionUpdates) :
        hist'.changes.positionUpdates[i].nodeId = id

\* A position update is emitted exactly for the identities with no stored position or
\* with a stored position that is not the backend's, however close.
C29_UpdateIffNotEqual ==
    [][hist'.op = "reconcile" =>
           \A id \in DOMAIN hist'.snapshot.positions :
               HasPositionUpdate(id) <=>
                   \/ ~Has(savedPositions, id)
                   \/ savedPositions[id] # hist'.snapshot.positions[id]]_vars

(* C29: comparePositions emits a position update for an identity if and only if no
   local position is recorded for it or the backend position differs from the local
   one by more than the pixel tolerance; a backend position within the tolerance of
   the local position yields no position update. *)
C29_UpdateIffBeyondTolerance ==
    [][hist'.op = "reconcile" =>
           \A id \in DOMAIN hist'.snapshot.positions :
               HasPositionUpdate(id) <=>
                   \/ ~Has(savedPositions, id)
                   \/ BeyondTolerance(id, hist'.snapshot.positions)]_vars

---------------------------------------------------------------------------
(* addIncrementalElements on its own: new devices of a group               *)

IP3 == << 49, 48, 46, 48, 46, 48, 46, 51 >>   \* "10.0.0.3"
IP4 == << 49, 48, 46, 48, 46, 48, 46, 52 >>   \* "10.0.0.4"
IP5 == << 49, 48, 46, 48, 46, 48, 46, 53 >>   \* "10.0.0.5"
IP6 == << 49, 48, 46, 48, 46, 48, 46, 54 >>   \* "10.0.0.6"

\* The longest list of new devices handed to one call.
MaxBatch == 2

\* A new device as compareNodes reports it.
NewDevice(id, parent) ==
    [id |-> id, label |-> id, type |-> TSwitch, parent |-> parent, status |-> On]

\* The lists of new devices: distinct identities, each in the group or in no group.
Batches ==
    { b \in SeqsUpTo({ NewDevice(id, parent) : id \in { IP4, IP5, IP6 },
                                                parent \in { CoreBlock, << >> } },
                     MaxBatch) :
        /\ b # << >>
        /\ \A i, j \in 1..Len(b) : b[i].id = b[j].id => i = j }

\* A group rendered with two devices at opposite corners of its box, at stored
\* positions, and earlier devices inside the box.  The position of a compound node
\* is the centre of the box around its children: a device added at the origin or
\* placed at a grid slot is inside the box, so the group stays at the origin.
GroupRendering(w, h, inner) ==
    [present |-> TRUE,
     nodes |-> MapOf({ << CoreBlock, CyNode(P0, << >>) >>,
                       << IP1, CyNode(Pos(0 - w, 0 - h), CoreBlock) >>,
                       << IP2, CyNode(Pos(w, h), CoreBlock) >> }
                     \cup { << p[1], CyNode(p[2], CoreBlock) >> : p \in inner }),
     edges |-> << >>,
     viewport |-> Viewport]

GroupRenderings ==
    { GroupRendering(w, h, inner) :
        w \in { 200, 280 }, h \in { 120, 200 },
        inner \in { { }, { << IP3, BlockSlot(P0, 2) >> } } }

\* The positions the rendering holds are the stored ones.
PositionsOf(cyv) ==
    [n \in (DOMAIN cyv.nodes) \ { CoreBlock } |-> cyv.nodes[n].position]

InitGroup ==
    /\ cy \in GroupRenderings
    /\ savedPositions = PositionsOf(cy)
    /\ networkData = [blocks |-> << >>, nodes |-> << >>, edges |-> << >>]
    /\ connectionMap = EmptyMap
    /\ deviceStatusMap = EmptyMap
    /\ deviceTypeMap = EmptyMap
    /\ isUserDragging = FALSE
    /\ isLoadingData = FALSE
    /\ isSilentRefreshing = FALSE
    /\ loadFailed = FALSE
    /\ forceFullUpdate = FALSE
    /\ inflight = { }
    /\ component = "edit"
    /\ pendingInit = 0
    /\ grabbed = << >>
    /\ userMoved = { }
    /\ hist = NoHist
    /\ fnIn \in [newNodes : Batches, newEdges : { << >> }, rnd : RndChoices]
    /\ fnOut = NoResult

CallAddIncrementalElements ==
    /\ fnOut = NoResult
    /\ SetTables(addIncrementalElements(Tables, fnIn.newNodes, fnIn.newEdges, fnIn.rnd))
    /\ fnOut' = [done |-> TRUE, op |-> "add", before |-> cy, stored |-> savedPositions]
    /\ UNCHANGED << flags, requests, fnIn, grabbed, userMoved, hist >>

NextGroup == CallAddIncrementalElements

SpecGroup == InitGroup /\ [][NextGroup]_vars

\* The new devices of the call that name the group as their parent.
NewInGroup(parent) ==
    { fnIn.newNodes[i].id : i \in { k \in 1..Len(fnIn.newNodes) :
                                      fnIn.newNodes[k].parent = parent } }

\* Every new device of the group is at the slot numbered by the count of the group's
\* other devices in the rendering, the new ones of the same call included.
C30_SlotCountsEveryOtherDevice ==
    fnOut.done =>
        \A id \in NewInGroup(CoreBlock) :
            cy.nodes[id].position =
                BlockSlot(P0, Cardinality(Children(cy, CoreBlock) \ { id }))

(* C30: when several new devices with the same parent group are added in one
   addIncrementalElements call, each one's slot in the 4-column grid is derived from
   the number of siblings already placed, so no two of them receive the same
   position, and none of them receives the position of an earlier grid-placed
   sibling. *)
C30_NewGroupDevicesPlacedApart ==
    fnOut.done =>
        \A a \in NewInGroup(CoreBlock) :
            /\ \A b \in NewInGroup(CoreBlock) \ { a } :
                   cy.nodes[a].position # cy.nodes[b].position
            /\ \A e \in Children(fnOut.before, CoreBlock) :
                   cy.nodes[a].position # fnOut.before.nodes[e].position

---------------------------------------------------------------------------
(* The layout engine over elements that have positions                     *)

\* The order in which cy.nodes() lists the elements of these renderings.
FillOrder == << CoreBlock, IP1, IP2, IP3, IP4, IP5 >>

\* The group of GroupRendering with an earlier device at a grid slot, at the origin
\* (an invalid position) or not rendered at all.
FillRenderings ==
    { GroupRendering(200, 120, inner) :
        inner \in { { }, { << IP3, BlockSlot(P0, 2) >> }, { << IP3, P0 >> } } }

\* Stored positions: those of the two corner devices, and for the others a valid
\* one, an invalid one or none.
FillStores ==
    { MapOf({ << IP1, Pos(0 - 200, 0 - 120) >>, << IP2, Pos(200, 120) >> } \cup s3 \cup s4) :
        s3 \in { { }, { << IP3, PA >> }, { << IP3, P0 >> } },
        s4 \in { { }, { << IP4, PA >> } } }

\* New devices as the change-set lists them; IP3 may be rendered already.
FillBatches ==
    { b \in SeqsUpTo({ NewDevice(id, parent) : id \in { IP3, IP4, IP5 },
                                                parent \in { CoreBlock, << >> } },
                     MaxBatch) :
        /\ b # << >>
        /\ \A i, j \in 1..Len(b) : b[i].id = b[j].id => i = j }

InitFill ==
    /\ cy \in FillRenderings
    /\ savedPositions \in FillStores
    /\ networkData = [blocks |-> << >>, nodes |-> << >>, edges |-> << >>]
    /\ connectionMap = EmptyMap
    /\ deviceStatusMap = EmptyMap
    /\ deviceTypeMap = EmptyMap
    /\ isUserDragging = FALSE
    /\ isLoadingData = FALSE
    /\ isSilentRefreshing = FALSE
    /\ loadFailed = FALSE
    /\ forceFullUpdate = FALSE
    /\ inflight = { }
    /\ component = "edit"
    /\ pendingInit = 0
    /\ grabbed = << >>
    /\ userMoved = { }
    /\ hist = NoHist
    /\ fnIn \in [newNodes : FillBatches, newEdges : { << >> }, rnd : RndChoices]
    /\ fnOut = NoResult

CallFixInvalidPositionsAfterUpdate ==
    /\ fnOut = NoResult
    /\ SetTables(fixInvalidPositionsAfterUpdate(FillOrder, Tables, fnIn.rnd))
    /\ fnOut' = [done |-> TRUE, op |-> "fix", before |-> cy, stored |-> savedPositions]
    /\ UNCHANGED << flags, requests, fnIn, grabbed, userMoved, hist >>

NextFill == CallAddIncrementalElements \/ CallFixInvalidPositionsAfterUpdate

SpecFill == InitFill /\ [][NextFill]_vars

\* The identity had a valid stored position when the call began.
HadValidStored(id) == Has(fnOut.stored, id) /\ isValidPosition(fnOut.stored[id])

\* The identity was rendered at a valid position when the call began.
HadValidRendered(id) ==
    Has(fnOut.before.nodes, id) /\ isValidPosition(fnOut.before.nodes[id].position)

\* The elements the call asks generateSafePosition about: the new devices that were
\* not rendered before, or the devices rendered at an invalid position.
AskedPosition ==
    IF fnOut.op = "add"
    THEN { id \in DOMAIN cy.nodes :
             /\ ~Has(fnOut.before.nodes, id)
             /\ \E i \in 1..Len(fnIn.newNodes) : fnIn.newNodes[i].id = id }
    ELSE { id \in DOMAIN fnOut.before.nodes :
             ~IsParent(fnOut.before, id) /\ ~HadValidRendered(id) }

(* C31: the layout engine only fills gaps: an element asked about that has a valid
   saved position is put at that saved position, and addIncrementalElements and
   fixInvalidPositionsAfterUpdate change neither the rendered position of an element
   that was rendered at a valid position nor the stored position of an element
   that had a valid stored position. *)
C31_OnlyGapsFilled ==
    fnOut.done =>
        /\ \A id \in AskedPosition :
               HadValidStored(id) => cy.nodes[id].position = fnOut.stored[id]
        /\ \A id \in DOMAIN fnOut.before.nodes :
               HadValidRendered(id) =>
                   cy.nodes[id].position = fnOut.before.nodes[id].position
        /\ \A id \in DOMAIN fnOut.stored :
               HadValidStored(id) =>
                   Has(savedPositions, id) /\ savedPositions[id] = fnOut.stored[id]

\* A call that placed a device without a stored position next to a rendered device
\* with a valid position and asked about a device with a valid stored position.
C31_Witness ==
    /\ fnOut.done
    /\ \E id \in AskedPosition : HadValidStored(id)
    /\ \E id \in AskedPosition : ~HadValidStored(id)
    /\ HadValidRendered(IP3)

---------------------------------------------------------------------------
(* generateSafePosition on its own                                         *)

\* A viewport with the origin inside, as after panning.
ViewportAboutOrigin == [x1 |-> 0 - 300, y1 |-> 0 - 300, x2 |-> 500, y2 |-> 300]

\* Rendered devices << identity, position, parent >> besides the one asked about.
SafeLayouts ==
    { { },
      { << IP1, Pos(80, 0), CoreBlock >> },
      { << IP1, Pos(240, 90), CoreBlock >> },
      { << IP1, Pos(450, 300), << >> >>, << IP2, Pos(900, 250), << >> >> },
      { << IP1, Pos(450, 300), << >> >>, << IP2, Pos(900, 250), << >> >>,
        << IP4, Pos(450, 600), << >> >>, << IP5, Pos(900, 600), << >> >> } }

\* The centre of the box around the positions: where a compound node is.
BoxCentre(ps) ==
    Pos(((CHOOSE a \in { q.x : q \in ps } : \A q \in ps : a <= q.x)
           + (CHOOSE b \in { q.x : q \in ps } : \A q \in ps : b >= q.x)) \div 2,
        ((CHOOSE a \in { q.y : q \in ps } : \A q \in ps : a <= q.y)
           + (CHOOSE b \in { q.y : q \in ps } : \A q \in ps : b >= q.y)) \div 2)

\* The rendering of the devices, with the group when it has a child.
RenderingOf(devices, vp) ==
    [present |-> TRUE,
     nodes |-> MapOf({ << d[1], CyNode(d[2], d[3]) >> : d \in devices }
                     \cup { << CoreBlock,
                               CyNode(BoxCentre({ d[2] : d \in { e \in devices :
                                                                  e[3] = CoreBlock } }),
                                      << >>) >> :
                              x \in { d \in devices : d[3] = CoreBlock } }),
     edges |-> << >>,
     viewport |-> vp]

\* The device asked about is rendered at the origin, in the group or in none.
InitSafe ==
    /\ \E layout \in SafeLayouts, parent \in { CoreBlock, << >> },
          vp \in { Viewport, ViewportAboutOrigin }, rnd \in RndChoices :
           /\ cy = RenderingOf(layout \cup { << IP3, P0, parent >> }, vp)
           /\ fnIn = [nodeId |-> IP3, parent |-> parent, rnd |-> rnd]
    /\ savedPositions \in { EmptyMap, MapOf({ << IP3, P0 >> }), MapOf({ << IP3, PA >> }) }
    /\ networkData = [blocks |-> << >>, nodes |-> << >>, edges |-> << >>]
    /\ connectionMap = EmptyMap
    /\ deviceStatusMap = EmptyMap
    /\ deviceTypeMap = EmptyMap
    /\ isUserDragging = FALSE
    /\ isLoadingData = FALSE
    /\ isSilentRefreshing = FALSE
    /\ loadFailed = FALSE
    /\ forceFullUpdate = FALSE
    /\ inflight = { }
    /\ component = "edit"
    /\ pendingInit = 0
    /\ grabbed = << >>
    /\ userMoved = { }
    /\ hist = NoHist
    /\ fnOut = NoResult

CallGenerateSafePosition ==
    /\ fnOut = NoResult
    /\ fnOut' = [done |-> TRUE,
                 position |-> generateSafePosition(savedPositions, cy, fnIn.nodeId,
                                                   fnIn.parent, fnIn.rnd)]
    /\ UNCHANGED << canonical, cy, flags, requests, fnIn, grabbed, userMoved, hist >>

NextSafe == CallGenerateSafePosition

SpecSafe == InitSafe /\ [][NextSafe]_vars

\* The call computed a position: there was no valid saved one.
Computed ==
    /\ fnOut.done
    /\ ~(hasSavedPosition(savedPositions, fnIn.nodeId)
         /\ isValidPosition(savedPositions[fnIn.nodeId]))

\* A position computed for a device of a group centred at the origin is valid.
C32_SlotAboutOriginValid ==
    Computed /\ fnIn.parent = CoreBlock /\ cy.nodes[CoreBlock].position = P0
        => isValidPosition(fnOut.position)

(* C32: every position computed by generateSafePosition is valid, that is not exactly
   (0,0) and with both coordinates finite, for a device inside a group whatever the
   group's centre and the number of siblings, and for an orphan device whatever the
   viewport and the existing devices. *)
C32_ComputedPositionValid ==
    Computed => isValidPosition(fnOut.position)

---------------------------------------------------------------------------
(* Orphan placement: the grid scan and the last resort                     *)

\* The call took the viewport path: no parent was given or it is not rendered.
OrphanPath ==
    Computed /\ ~(fnIn.parent # << >> /\ Has(cy.nodes, fnIn.parent))

ExistingPositions == { cy.nodes[n].position : n \in (DOMAIN cy.nodes) \ { fnIn.nodeId } }

ViewportWidth == Max(cy.viewport.x2 - cy.viewport.x1, 800)
ViewportHeight == Max(cy.viewport.y2 - cy.viewport.y1, 600)

\* The candidates of the random attempts.
Candidates ==
    { RandomCandidate(fnIn.rnd.draws[i], cy.viewport, ViewportWidth, ViewportHeight) :
        i \in 1..MaxAttempts }

\* All the random attempts were rejected.
AttemptsExhausted == \A c \in Candidates : CandidateRejected(c, ExistingPositions)

\* The cell of the coarse grid at a row and a column.
GridCellAt(vp, row, col) ==
    Pos(vp.x1 + Padding + col * GridSize + GridSize \div 2,
        vp.y1 + Padding + row * GridSize + GridSize \div 2)

\* The cells << row, col >> at least the minimum distance from every existing device.
ClearCells ==
    { rc \in (0..(CeilDiv(ViewportHeight, GridSize) - 1))
               \X (0..(CeilDiv(ViewportWidth, GridSize) - 1)) :
        \A e \in ExistingPositions :
            ~(Dist2(GridCellAt(cy.viewport, rc[1], rc[2]), e) < MinDistance * MinDistance) }

\* The first of the cells in the order of the scan, row by row.
FirstInScan(cells) ==
    CHOOSE c \in cells :
        \A d \in cells : c[1] < d[1] \/ (c[1] = d[1] /\ c[2] <= d[2])

\* When a cell of the first row is clear, the first clear cell of that row is returned.
C33_FirstClearCellOfFirstRow ==
    OrphanPath /\ AttemptsExhausted /\ (\E rc \in ClearCells : rc[1] = 0)
        => fnOut.position = GridCellAt(cy.viewport, 0, FirstInScan(ClearCells)[2])

(* C33: when all 20 random attempts of generateSafePosition are rejected, the function
   scans the coarse grid over the whole viewport, row by row and column by column,
   and returns the first cell at least the minimum distance from every existing
   device whenever such a cell exists in any row of the grid. *)
C33_FirstClearCellReturned ==
    OrphanPath /\ AttemptsExhausted /\ ClearCells # { }
        => fnOut.position = GridCellAt(cy.viewport, FirstInScan(ClearCells)[1],
                                       FirstInScan(ClearCells)[2])

\* The positions the last resort can draw: 200 + Math.random() * 400 on each axis.
LastResortPositions ==
    { Pos(200 + (k * 400) \div RandDen, 200 + (m * 400) \div RandDen) :
        k \in 0..(RandDen - 1), m \in 0..(RandDen - 1) }

\* When no cell of the first row is clear, the last random candidate is returned.
C34_LastCandidateReturned ==
    OrphanPath /\ AttemptsExhausted /\ ~(\E rc \in ClearCells : rc[1] = 0)
        => fnOut.position = RandomCandidate(fnIn.rnd.draws[MaxAttempts], cy.viewport,
                                            ViewportWidth, ViewportHeight)

(* C34: when the random attempts are exhausted and no cell of the grid scan is clear
   of all existing devices, generateSafePosition returns the last-resort position
   drawn near the fixed offset (x and y each in the range 200 to 600), and never a
   candidate that was already rejected as too close to the origin or to an existing
   device. *)
C34_LastResortReturned ==
    OrphanPath /\ AttemptsExhausted /\ ClearCells = { }
        => fnOut.position \in LastResortPositions \ Candidates

---------------------------------------------------------------------------
(* The positions of the groups                                             *)

LabBlock == << 108, 97, 98, 45, 98, 108, 111, 99, 107 >>   \* "lab-block"

fixedBlockPositions ==
    MapOf({ << CoreBlock, Pos(0, 0) >>, << InternetBlock, Pos(0, 0 - 6000) >>,
            << ExternalBlock, Pos(0 - 5200, 0 - 3000) >>, << WanBlock, Pos(5200, 0 - 3000) >>,
            << DatacenterBlock, Pos(0 - 5200, 3000) >>, << ReplicationBlock, Pos(5200, 3000) >>,
            << OobBlock, Pos(0, 6000) >>, << ExtranetBlock, Pos(0 - 5200, 0) >>,
            << VisibilityBlock, Pos(5200, 0) >>, << DmzBlock, Pos(0, 3000) >>,
            << IpsBlock, Pos(2600, 0) >> })

\* The radial slot (cos(angle) * 8000, sin(angle) * 8000), angle = index * 2 * PI / count,
\* kept as the index and the count it is computed from: index is -1 for a block that
\* is not among the unknown ones, and count 0 makes the angle infinite.
RadialSlot(index, count) == [radial |-> << index, count >>]

IsRadial(position) == "radial" \in DOMAIN position

\* savedPos && (savedPos.x !== 0 || savedPos.y !== 0), with getSavedPosition's test.
SavedBlockPosition(saved, id) ==
    Has(saved, id) /\ (IsRadial(saved[id]) \/ saved[id].x # 0 \/ saved[id].y # 0)

isFirstTimeVisit(saved, nd) == DOMAIN saved = { } /\ ~hasNetworkData(nd)

\* indexOf in the blocks that have no fixed position, counted from 0; -1 when absent.
UnknownIndex(blocks, id) ==
    LET unknown == SelectSeq(blocks, LAMBDA b : ~Has(fixedBlockPositions, b))
    IN  IF \E k \in 1..Len(unknown) : unknown[k] = id
        THEN (CHOOSE k \in 1..Len(unknown) : unknown[k] = id) - 1
        ELSE 0 - 1

UnknownCount(blocks) == Len(SelectSeq(blocks, LAMBDA b : ~Has(fixedBlockPositions, b)))

\* The loop over networkData.blocks of convertToCytoscapeElements: r = [elements, saved].
RECURSIVE placeBlockElements(_, _, _, _)
placeBlockElements(r, nd, todo, isFirstVisit) ==
    IF todo = << >> THEN r
    ELSE LET id == Head(todo).id
             hasChildren == \E k \in 1..Len(nd.nodes) : Trim(nd.nodes[k].parent) = id
             allIds == [k \in 1..Len(nd.blocks) |-> nd.blocks[k].id]
             radial == RadialSlot(UnknownIndex(allIds, id), UnknownCount(allIds))
         IN  placeBlockElements(
                 IF ~hasChildren THEN r
                 ELSE IF SavedBlockPosition(r.saved, id)
                 THEN [r EXCEPT !.elements = Append(@, [id |-> id, position |-> r.saved[id]])]
                 ELSE IF isFirstVisit /\ Has(fixedBlockPositions, id)
                 THEN [elements |-> Append(r.elements,
                                           [id |-> id, position |-> fixedBlockPositions[id]]),
                       saved |-> saveNodePosition(r.saved, id, fixedBlockPositions[id])]
                 ELSE [elements |-> Append(r.elements, [id |-> id, position |-> radial]),
                       saved |-> saveNodePosition(r.saved, id, radial)],
                 nd, Tail(todo), isFirstVisit)

\* The loop over the compound nodes of ensureBlocksArePositioned: r = [elements, saved],
\* elements holding the compound nodes at their current positions.
RECURSIVE positionCompounds(_, _, _)
positionCompounds(r, k, isFirstVisit) ==
    IF k > Len(r.elements) THEN r
    ELSE LET id == r.elements[k].id
             currentPos == r.elements[k].position
             allIds == [j \in 1..Len(r.elements) |-> r.elements[j].id]
         IN  positionCompounds(
                 IF SavedBlockPosition(r.saved, id)
                 THEN [r EXCEPT !.elements[k].position = r.saved[id]]
                 ELSE IF isFirstVisit /\ Has(fixedBlockPositions, id)
                 THEN [elements |-> [r.elements EXCEPT ![k].position = fixedBlockPositions[id]],
                       saved |-> saveNodePosition(r.saved, id, fixedBlockPositions[id])]
                 ELSE IF ~isFirstVisit
                 THEN IF IsRadial(currentPos) \/ currentPos.x # 0 \/ currentPos.y # 0
                      THEN [r EXCEPT !.saved = saveNodePosition(@, id, currentPos)]
                      ELSE r
                 ELSE [r EXCEPT !.elements[k].position =
                           RadialSlot(UnknownIndex(allIds, id), UnknownCount(allIds))],
                 k + 1, isFirstVisit)

\* The groups a snapshot lists and the groups its two devices are in.
PlacedBlockLists ==
    { << CoreBlock >>, << InternetBlock >>, << LabBlock >>, << WanBlock, LabBlock >>,
      << LabBlock, InternetBlock >>, << CoreBlock, InternetBlock, LabBlock >> }

PlacedInputs ==
    { [blocks |-> [k \in 1..Len(bs) |-> [id |-> bs[k], label |-> bs[k]]],
       nodes |-> << [id |-> IP1, parent |-> p1], [id |-> IP2, parent |-> p2] >>,
       edges |-> << >>] :
        bs \in PlacedBlockLists,
        p1 \in { CoreBlock, InternetBlock, LabBlock },
        p2 \in { << >>, WanBlock, InternetBlock } }

InitPlaced ==
    /\ Idle
    /\ fnIn \in [nd : PlacedInputs,
                 saved : { EmptyMap, MapOf({ << IP1, PA >> }),
                           MapOf({ << InternetBlock, PA >> }),
                           MapOf({ << InternetBlock, P0 >> }) }]
    /\ fnOut = NoResult

CallPlaceBlockElements ==
    /\ fnOut = NoResult
    /\ fnOut' = [done |-> TRUE, op |-> "convert"]
                 @@ placeBlockElements([elements |-> << >>, saved |-> fnIn.saved],
                                       fnIn.nd, fnIn.nd.blocks,
                                       isFirstTimeVisit(fnIn.saved, fnIn.nd))
    /\ UNCHANGED << canonical, cy, flags, requests, fnIn, grabbed, userMoved, hist >>

CallPositionCompounds ==
    /\ fnOut.done /\ fnOut.op = "convert"
    /\ fnOut' = [done |-> TRUE, op |-> "ensure"]
                 @@ positionCompounds([elements |-> fnOut.elements, saved |-> fnOut.saved],
                                      1, isFirstTimeVisit(fnOut.saved, fnIn.nd))
    /\ UNCHANGED << canonical, cy, flags, requests, fnIn, grabbed, userMoved, hist >>

NextPlaced == CallPlaceBlockElements \/ CallPositionCompounds

SpecPlaced == InitPlaced /\ [][NextPlaced]_vars

\* The position the call gave the group, if the group is among the elements.
PlacedAt(id, position) ==
    \A k \in 1..Len(fnOut.elements) :
        fnOut.elements[k].id = id => fnOut.elements[k].position = position

\* A group with a valid saved position is placed there by both calls.
C35_SavedGroupPositionKept ==
    fnOut.done =>
        \A id \in DOMAIN fnIn.saved :
            SavedBlockPosition(fnIn.saved, id) => PlacedAt(id, fnIn.saved[id])

\* A built-in group with a child and no valid saved position is given the radial
\* slot of index -1 by both calls.
C35_BuiltInGroupGetsRadialSlot ==
    fnOut.done =>
        \A k \in 1..Len(fnOut.elements) :
            /\ Has(fixedBlockPositions, fnOut.elements[k].id)
            /\ ~SavedBlockPosition(fnIn.saved, fnOut.elements[k].id)
            => /\ IsRadial(fnOut.elements[k].position)
               /\ fnOut.elements[k].position.radial[1] = 0 - 1

(* C35: a recognised built-in group that has at least one child device and no valid
   saved position is always placed at its fixed canonical offset by
   convertToCytoscapeElements and ensureBlocksArePositioned, in every session state
   and not only on a first visit; it is never sent to the radial slot meant for
   unknown groups. *)
C35_BuiltInGroupAtCanonicalOffset ==
    fnOut.done =>
        \A k \in 1..Len(fnOut.elements) :
            /\ Has(fixedBlockPositions, fnOut.elements[k].id)
            /\ ~SavedBlockPosition(fnIn.saved, fnOut.elements[k].id)
            => fnOut.elements[k].position = fixedBlockPositions[fnOut.elements[k].id]

---------------------------------------------------------------------------
(* Status changes applied by a reconciliation                              *)

\* The status updates of the step that change the status of a rendered device.
ChangingStatusUpdates ==
    { i \in 1..Len(hist'.changes.statusUpdates) :
        LET update == hist'.changes.statusUpdates[i]
        IN  /\ Has(cy.nodes, update.deviceId)
            /\ Has(deviceStatusMap, update.deviceId)
            /\ deviceStatusMap[update.deviceId] \in { On, Off }
            /\ update.status \in { On, Off }
            /\ deviceStatusMap[update.deviceId] # update.status }

\* The new status of such an update is in the status map when the step is over.
C36_NewStatusInMap ==
    [][hist'.op = "reconcile" /\ ~hist'.dragging =>
           \A i \in ChangingStatusUpdates :
               deviceStatusMap'[hist'.changes.statusUpdates[i].deviceId]
                   = hist'.changes.statusUpdates[i].status]_vars

\* An animation event is pushed only for a device whose status in the snapshot's
\* device list is not the one in the snapshot's status map: the map is reloaded from
\* the snapshot before the updates are applied, so the status an event starts from is
\* the snapshot's own.
C36_AnimationOnlyOnDisagreement ==
    [][hist'.op = "reconcile" =>
           \A k \in 1..Len(hist'.animations) :
               /\ Has(hist'.snapshot.deviceStatus, hist'.animations[k].nodeId)
               /\ hist'.animations[k].fromStatus
                      = hist'.snapshot.deviceStatus[hist'.animations[k].nodeId]]_vars

(* C36: when reconciliation applies a status update that changes a rendered device's
   status (on to off or off to on), the new status is in the status map immediately
   and an animation event recording the old and the new status is appended to the
   pending status animations. *)
C36_StatusChangeAnimated ==
    [][hist'.op = "reconcile" /\ ~hist'.dragging =>
           \A i \in ChangingStatusUpdates :
               LET update == hist'.changes.statusUpdates[i]
               IN  /\ deviceStatusMap'[update.deviceId] = update.status
                   /\ \E k \in 1..Len(hist'.animations) :
                          hist'.animations[k] =
                              [nodeId |-> update.deviceId,
                               fromStatus |-> deviceStatusMap[update.deviceId],
                               toStatus |-> update.status]]_vars

---------------------------------------------------------------------------
(* A merge when two links join the same two devices                        *)

\* Two rows between the two devices on different interfaces have been imported.
ParallelLinks ==
    createNewEdge(createNewEdge(NoLink, IP1, IP2, 5, 5, 10, Eth0, Eth1, << >>),
                  IP1, IP2, 3, 3, 10, Eth1, Eth0, << >>)

\* The canonical identity of a rendered edge.
IdentityOfEdge(e) == createConnectionId(e.source, e.interface_a, e.target, e.interface_b)

\* The links are shown in the order of the list or in the opposite one; a further row
\* of one of the two identities is at hand.
InitParallel ==
    /\ fnIn \in [incoming : MergeTriples, linkId : DOMAIN ParallelLinks.conn,
                 shown : { << 1, 2 >>, << 2, 1 >> }]
    /\ fnOut = NoResult
    /\ networkData = [blocks |-> << >>, nodes |-> << Node1(On, TSwitch), Node2 >>,
                      edges |-> ParallelLinks.edges]
    /\ connectionMap = ParallelLinks.conn
    /\ cy = CyShowing([k \in 1..2 |-> ParallelLinks.edges[fnIn.shown[k]]])
    /\ savedPositions = MapOf({ << IP1, PA >>, << IP2, PB >> })
    /\ deviceStatusMap = BothOn
    /\ deviceTypeMap = BothTyped
    /\ isUserDragging = FALSE
    /\ isLoadingData = FALSE
    /\ isSilentRefreshing = FALSE
    /\ loadFailed = FALSE
    /\ forceFullUpdate = FALSE
    /\ inflight = { }
    /\ component = "edit"
    /\ pendingInit = 0
    /\ grabbed = << >>
    /\ userMoved = { }
    /\ hist = NoHist

CallHandleDuplicateOfParallel ==
    /\ fnOut = NoResult
    /\ \E st \in { handleDuplicateConnection(
                       [conn |-> connectionMap, cy |-> cy], fnIn.linkId,
                       fnIn.incoming.inSpeed, fnIn.incoming.outSpeed,
                       fnIn.incoming.capacity, IP1, IP2) } :
           /\ connectionMap' = st.conn
           /\ cy' = st.cy
    /\ fnOut' = [done |-> TRUE, before |-> cy]
    /\ UNCHANGED << networkData, savedPositions, deviceStatusMap, deviceTypeMap, flags,
                    requests, fnIn, grabbed, userMoved, hist >>

NextParallel == CallHandleDuplicateOfParallel

SpecParallel == InitParallel /\ [][NextParallel]_vars

\* The rendered edge carries the speeds, severity and colour of the registry record.
ShowsRecord(e, record) ==
    /\ e.speed = record.speed
    /\ e.speedPercentage = record.speedPercentage
    /\ e.speedColor = record.speedColor
    /\ e.speedStatus = record.speedStatus
    /\ e.inSpeed = G(record.inSpeed)
    /\ e.outSpeed = G(record.outSpeed)
    /\ e.capacity = G(record.capacity)
    /\ e.lineColor = record.speedColor

\* The first rendered edge between the two devices carries the merged record, and
\* every edge between them has the merged colour as its line colour.
C37_FirstEdgeBetweenDevicesUpdated ==
    fnOut.done =>
        /\ ShowsRecord(cy.edges[1], connectionMap[fnIn.linkId])
        /\ cy.edges[2].lineColor = connectionMap[fnIn.linkId].speedColor
        /\ [cy.edges[2] EXCEPT !.lineColor = "stylesheet"] = fnOut.before.edges[2]

(* C37: merging a duplicate observation propagates the merged speeds, severity and
   colour to the rendered edge of exactly that canonical link identity: the edge of
   that identity is updated, and edges of other identities, including a parallel
   link between the same two devices on different interfaces, keep their data and
   colour. *)
C37_MergeUpdatesEdgeOfIdentity ==
    fnOut.done =>
        \A k \in 1..Len(cy.edges) :
            IF IdentityOfEdge(cy.edges[k]) = fnIn.linkId
            THEN ShowsRecord(cy.edges[k], connectionMap[fnIn.linkId])
            ELSE cy.edges[k] = fnOut.before.edges[k]

---------------------------------------------------------------------------
(* The canonical link list after a merge                                   *)

\* The entry of networkData.edges carries the speeds, utilization and severity of the
\* registry record, in the form createNewEdge writes them.
AgreesWithRecord(edge, record) ==
    /\ edge.speed = record.speed
    /\ edge.metadata.inSpeed = G(record.inSpeed)
    /\ edge.metadata.outSpeed = G(record.outSpeed)
    /\ edge.metadata.capacity = G(record.capacity)
    /\ edge.metadata.speedPercentage = record.speedPercentage
    /\ edge.metadata.speedColor = record.speedColor
    /\ edge.metadata.speedStatus = record.speedStatus

\* The edge data convertToCytoscapeElements builds from the entry carries them.
RebuiltShowsRecord(edge, record) ==
    /\ EdgeData(edge).speed = record.speed
    /\ EdgeData(edge).inSpeed = G(record.inSpeed)
    /\ EdgeData(edge).outSpeed = G(record.outSpeed)
    /\ EdgeData(edge).capacity = G(record.capacity)
    /\ EdgeData(edge).speedPercentage = record.speedPercentage
    /\ EdgeData(edge).speedColor = record.speedColor
    /\ EdgeData(edge).speedStatus = record.speedStatus

\* The merge leaves the link list as the first row of the link wrote it.
C38_LinkListKeepsFirstRow ==
    fnOut.done =>
        networkData.edges = LinkOf(IP1, Eth0, IP2, Eth1, fnIn.existing.inSpeed,
                                   fnIn.existing.outSpeed, fnIn.existing.capacity).edges

(* C38: after handleDuplicateConnection merges a duplicate observation, the link's
   entry in the canonical link list (networkData.edges) agrees with the merged
   registry record, so an element list rebuilt later by convertToCytoscapeElements
   carries the merged speeds, utilization and severity for that link. *)
C38_LinkListAgreesWithRegistry ==
    fnOut.done =>
        \A k \in 1..Len(networkData.edges) :
            IdentityOfLink(networkData.edges[k]) = MergeId =>
                /\ AgreesWithRecord(networkData.edges[k], connectionMap[MergeId])
                /\ RebuiltShowsRecord(networkData.edges[k], connectionMap[MergeId])

---------------------------------------------------------------------------
(* The order in which a change-set is added to the rendering engine        *)

\* New devices in no group, in a rendered group, in a group not seen before, or with
\* a parent that carries a blank.
OrderedBatches ==
    { b \in SeqsUpTo({ NewDevice(id, parent) :
                         id \in { IP4, IP5 },
                         parent \in { << >>, CoreBlock, DmzBlock, PaddedCoreBlock } },
                     MaxBatch) :
        /\ b # << >>
        /\ \A i, j \in 1..Len(b) : b[i].id = b[j].id => i = j }

\* New links: none, one between the two new devices, one from a rendered device to a
\* new one, one to a device that is neither rendered nor new.
OrderedLinks ==
    { << >>,
      LinkOf(IP5, Eth0, IP4, Eth1, 5, 5, 10).edges,
      LinkOf(IP1, Eth0, IP4, Eth1, 5, 5, 10).edges,
      LinkOf(IP4, Eth0, IP6, Eth1, 5, 5, 10).edges }

\* The engine shows nothing, or the group with one device.
OrderedRenderings ==
    { [present |-> TRUE, nodes |-> EmptyMap, edges |-> << >>, viewport |-> Viewport],
      [present |-> TRUE,
       nodes |-> MapOf({ << CoreBlock, CyNode(PA, << >>) >>,
                         << IP1, CyNode(PA, CoreBlock) >> }),
       edges |-> << >>, viewport |-> Viewport] }

InitOrdered ==
    /\ cy \in OrderedRenderings
    /\ savedPositions = PositionsOf(cy)
    /\ networkData = [blocks |-> << >>, nodes |-> << >>, edges |-> << >>]
    /\ connectionMap = EmptyMap
    /\ deviceStatusMap = EmptyMap
    /\ deviceTypeMap = EmptyMap
    /\ isUserDragging = FALSE
    /\ isLoadingData = FALSE
    /\ isSilentRefreshing = FALSE
    /\ loadFailed = FALSE
    /\ forceFullUpdate = FALSE
    /\ inflight = { }
    /\ component = "edit"
    /\ pendingInit = 0
    /\ grabbed = << >>
    /\ userMoved = { }
    /\ hist = NoHist
    /\ fnIn \in [newNodes : OrderedBatches, newEdges : OrderedLinks, rnd : RndChoices]
    /\ fnOut = NoResult

NextOrdered == CallAddIncrementalElements

SpecOrdered == InitOrdered /\ [][NextOrdered]_vars

NewDeviceIds == { fnIn.newNodes[i].id : i \in 1..Len(fnIn.newNodes) }

\* The link is rendered: an edge of the engine joins its endpoints.
LinkRendered(e) ==
    \E k \in 1..Len(cy.edges) :
        cy.edges[k].source = e.source /\ cy.edges[k].target = e.target

\* Every new device is rendered, the group its trimmed parent names is rendered, and
\* a new link is rendered exactly when both of its endpoints are.
C39_GroupsThenDevicesThenLinks ==
    fnOut.done =>
        /\ \A i \in 1..Len(fnIn.newNodes) :
               /\ Has(cy.nodes, fnIn.newNodes[i].id)
               /\ Trim(fnIn.newNodes[i].parent) # << >>
                      => Has(cy.nodes, Trim(fnIn.newNodes[i].parent))
        /\ \A j \in 1..Len(fnIn.newEdges) :
               LinkRendered(fnIn.newEdges[j])
                   <=> /\ Has(cy.nodes, fnIn.newEdges[j].source)
                       /\ Has(cy.nodes, fnIn.newEdges[j].target)

(* C39: a change-set is applied to the rendering engine in dependency order: a new
   device's parent group is created in the engine before the device is added, and
   all new devices are added before any new link, so a new link whose two endpoints
   are new devices of the same change-set is rendered and no element is added while
   something it refers to is missing. *)
C39_NothingAddedBeforeWhatItRefersTo ==
    fnOut.done =>
        /\ \A j \in 1..Len(fnIn.newEdges) :
               { fnIn.newEdges[j].source, fnIn.newEdges[j].target } \subseteq NewDeviceIds
                   => LinkRendered(fnIn.newEdges[j])
        /\ \A k \in 1..Len(cy.edges) :
               Has(cy.nodes, cy.edges[k].source) /\ Has(cy.nodes, cy.edges[k].target)
        /\ \A i \in 1..Len(fnIn.newNodes) :
               fnIn.newNodes[i].parent # << >>
                   => Has(cy.nodes, fnIn.newNodes[i].parent)

---------------------------------------------------------------------------
(* Snapshots that arrive while no instance of the rendering engine exists  *)

\* The step just taken handled a snapshot in compareAndUpdateNetworkData while the
\* component had no instance.
AnsweredWithoutInstance ==
    /\ component = "edit"
    /\ ~cy.present
    /\ hist'.op = "answer"
    /\ hist'.outcome = "data"

(* C40: a snapshot that arrives while no rendering-engine instance exists causes only
   a bounded number of follow-up backend requests.  The answer to a load started in
   normal mode starts no request; the answer to a load started in silent mode starts
   at most one, and that one is a load in normal mode, so the chain response,
   compareAndUpdateNetworkData, loadNetworkData ends after one follow-up at most. *)
C40_FollowUpsBounded ==
    [][AnsweredWithoutInstance =>
          /\ ~cy'.present
          /\ hist'.followups \in { 0, 1 }
          /\ ~hist'.silent => hist'.followups = 0
          /\ hist'.followups = 1 =>
                 /\ isLoadingData'
                 /\ \E req \in inflight' : req.kind = "load" /\ ~req.silent
                 /\ \A req \in inflight' : req.silent => req \in inflight]_vars

\* A snapshot answered a silent load while there was no instance, and the one
\* follow-up load it may start is waiting for its answer.
C40_Witness ==
    /\ component = "edit"
    /\ ~cy.present
    /\ hist.op = "answer"
    /\ hist.outcome = "data"
    /\ hist.silent
    /\ hist.followups = 1
    /\ isLoadingData
    /\ \E req \in inflight : req.kind = "load" /\ ~req.silent

===========================================================================
